---- MODULE Spec2Model ----
(***************************************************************************)
(* Blockchain network registry: the Network entity, the networks table of  *)
(* the PostgreSQL repository and the Create / Update / PartialUpdate /     *)
(* Delete use cases, run as concurrent requests.  Every repository call is *)
(* one SQL statement and one step of a request; the local computation      *)
(* between two awaits that reads the clock (Network::new, with_updates) is *)
(* a step of its own.                                                      *)
(***************************************************************************)
EXTENDS Integers, Sequences, FiniteSets, TLC

(* ------------------------------ bounds --------------------------------- *)
\* concurrent request slots
MaxProcs == 2
\* ids NetworkId::new() can hand out
MaxIds == 2
\* last clock reading
MaxTime == 1
\* largest chain id a request carries
MaxChain == 2
\* requests served in one run
MaxRequests == 4
\* executions against an arbitrary repository in one run
MaxGatewayRequests == 2
\* HTTP requests served in one run
MaxHttpRequests == 2

Procs == 1..MaxProcs
Ids == 1..MaxIds
\* an id NetworkId::new() never hands out
UnknownId == MaxIds + 1

(* --------------------------- program constants -------------------------- *)
MAX_NAME_LENGTH == 100
MAX_URL_LENGTH == 500
MAX_OTHER_RPC_URLS == 10
ETHEREUM_ADDRESS_LENGTH == 42
\* validation.leeway, in seconds
LEEWAY == 60

(* ------------------------------ Option<T> ------------------------------ *)
None == <<>>
Some(x) == <<x>>
unwrap_or(opt, default) == IF opt = None THEN default ELSE opt[1]

(* ------------------------- strings as char codes ------------------------ *)
Repeat(c, n) == [i \in 1..n |-> c]
NameA == <<69, 116, 104>>
NameB == <<80, 111, 108>>
UrlA == <<104, 116, 116, 112, 58, 47, 47, 97>>
UrlB == <<104, 116, 116, 112, 58, 47, 47, 98>>
AddrA == <<48, 120>> \o Repeat(97, 40)
AddrB == <<48, 120>> \o Repeat(98, 40)
\* "0x", 38 times "a" and one "e" with acute accent: 41 chars, 42 bytes
AddrNonAscii == <<48, 120>> \o Repeat(97, 38) \o <<233>>

\* str::len: the length of the string's UTF-8 encoding in bytes, one to four
\* bytes for a char by its code (char::len_utf8)
len(str) ==
    Len(str) + Cardinality({i \in DOMAIN str : str[i] >= 128})
             + Cardinality({i \in DOMAIN str : str[i] >= 2048})
             + Cardinality({i \in DOMAIN str : str[i] >= 65536})

(* ------------------------------- errors -------------------------------- *)
\* a UseCaseError value: variant, the wrapped DomainError / RepositoryError
\* variant, and the detail the value carries (its message, field or id; for
\* RepositoryError::Database the SQLSTATE of the driver error)
UseCaseError(variant, inner, code) == [variant |-> variant, inner |-> inner, code |-> code]
NoError == UseCaseError("", "", "")
Conflict == UseCaseError("Conflict", "", "")
NotFound == UseCaseError("NotFound", "", "")
\* From<DomainError> for UseCaseError
FromDomainError(d) == UseCaseError("Domain", d, "")
\* From<DomainError> for UseCaseError, for DomainError::ValidationError(message)
FromValidationError(message) == [FromDomainError("ValidationError") EXCEPT !.code = message]
\* a RepositoryError value
RepositoryError(variant, code, aboutChainId) == [variant |-> variant, code |-> code, aboutChainId |-> aboutChainId]
\* From<sqlx::Error> for RepositoryError, for a unique violation on chain_id
UniqueViolationDbError == RepositoryError("Database", "23505", TRUE)

is_chain_id_conflict(e) ==
    IF e.variant = "Database" /\ e.code = "23505" THEN e.aboutChainId ELSE FALSE

into_domain_error(e) ==
    IF is_chain_id_conflict(e) THEN RepositoryError("UniqueViolation", "", FALSE) ELSE e

\* From<RepositoryError> for UseCaseError, what `?` applies to a repository failure
FromRepositoryError(e) == UseCaseError("Repository", e.variant, e.code)

\* status_code without the arm for RepositoryError::UniqueViolation
status_code_unique_violation_500(e) ==
    CASE e.variant = "Validation" -> 400
      [] e.variant = "NotFound" -> 404
      [] e.variant = "Conflict" -> 409
      [] e.variant = "Unauthorized" -> 401
      [] e.variant = "Forbidden" -> 403
      [] e.variant = "Domain" /\ e.inner = "ChainIdConflict" -> 409
      [] e.variant = "Domain" /\ e.inner = "InvalidState" -> 400
      [] e.variant = "Domain" /\ e.inner = "ValidationError" -> 400
      [] e.variant = "Repository" /\ e.inner = "NotFound" -> 404
      [] OTHER -> 500

status_code(e) ==
    CASE e.variant = "Validation" -> 400
      [] e.variant = "NotFound" -> 404
      [] e.variant = "Conflict" -> 409
      [] e.variant = "Unauthorized" -> 401
      [] e.variant = "Forbidden" -> 403
      [] e.variant = "Domain" /\ e.inner = "ChainIdConflict" -> 409
      [] e.variant = "Domain" /\ e.inner = "InvalidState" -> 400
      [] e.variant = "Domain" /\ e.inner = "ValidationError" -> 400
      [] e.variant = "Repository" /\ e.inner = "UniqueViolation" -> 409
      [] e.variant = "Repository" /\ e.inner = "NotFound" -> 404
      [] OTHER -> 500

error_code(e) ==
    CASE e.variant = "Validation" -> "VALIDATION_ERROR"
      [] e.variant = "NotFound" -> "NOT_FOUND"
      [] e.variant = "Conflict" -> "CONFLICT"
      [] e.variant = "Unauthorized" -> "UNAUTHORIZED"
      [] e.variant = "Forbidden" -> "FORBIDDEN"
      [] e.variant = "Domain" /\ e.inner = "ChainIdConflict" -> "CONFLICT"
      [] e.variant = "Domain" /\ e.inner = "InvalidState" -> "INVALID_STATE"
      [] e.variant = "Domain" /\ e.inner = "ValidationError" -> "VALIDATION_ERROR"
      [] e.variant = "Repository" /\ e.inner = "UniqueViolation" -> "CONFLICT"
      [] e.variant = "Repository" /\ e.inner = "NotFound" -> "NOT_FOUND"
      [] OTHER -> "INTERNAL_ERROR"

GenericMessage == <<"An internal error occurred. Please try again later.">>

\* safe_message with the Display text of a database error as its message
safe_message_echoes_database_error(e) ==
    CASE e.variant = "Validation" -> <<"Validation failed: {}", e.code>>
      [] e.variant = "NotFound" -> <<"{} with id '{}' not found", e.code>>
      [] e.variant = "Conflict" -> <<"{}", e.code>>
      [] e.variant = "Unauthorized" -> <<"Authentication required">>
      [] e.variant = "Forbidden" -> <<"Access denied">>
      [] e.variant = "Domain" /\ e.inner = "ChainIdConflict" ->
            <<"Network with chain_id {} already exists", e.code>>
      [] e.variant = "Domain" /\ e.inner = "InvalidState" -> <<"{}", e.code>>
      [] e.variant = "Domain" /\ e.inner = "ValidationError" -> <<"{}", e.code>>
      [] e.variant = "Repository" /\ e.inner = "UniqueViolation" ->
            <<"A record with this {} already exists", e.code>>
      [] e.variant = "Repository" /\ e.inner = "NotFound" -> <<"{} not found", e.code>>
      [] e.variant = "Repository" /\ e.inner = "Database" -> <<"Database error: {}", e.code>>
      [] OTHER -> GenericMessage

\* UseCaseError::safe_message: the format string and the detail put into it
safe_message(e) ==
    CASE e.variant = "Validation" -> <<"Validation failed: {}", e.code>>
      [] e.variant = "NotFound" -> <<"{} with id '{}' not found", e.code>>
      [] e.variant = "Conflict" -> <<"{}", e.code>>
      [] e.variant = "Unauthorized" -> <<"Authentication required">>
      [] e.variant = "Forbidden" -> <<"Access denied">>
      [] e.variant = "Domain" /\ e.inner = "ChainIdConflict" ->
            <<"Network with chain_id {} already exists", e.code>>
      [] e.variant = "Domain" /\ e.inner = "InvalidState" -> <<"{}", e.code>>
      [] e.variant = "Domain" /\ e.inner = "ValidationError" -> <<"{}", e.code>>
      [] e.variant = "Repository" /\ e.inner = "UniqueViolation" ->
            <<"A record with this {} already exists", e.code>>
      [] e.variant = "Repository" /\ e.inner = "NotFound" -> <<"{} not found", e.code>>
      [] e.variant = "Repository" /\ e.inner = "Database" -> GenericMessage
      [] e.variant = "Repository" /\ e.inner = "Mapping" -> GenericMessage

\* IntoResponse for ApiError, arm ApiError::UseCase: the status and the error
\* member of the body (request_id is None, timestamp the clock reading)
into_response(e) ==
    [code |-> error_code(e), message |-> safe_message(e), status |-> status_code(e),
     details |-> IF e.variant = "Validation" THEN Some(e.code) ELSE None]

\* Result<_, UseCaseError>
Ok(v) == [ok |-> TRUE, value |-> v, err |-> NoError]
Err(e) == [ok |-> FALSE, value |-> None, err |-> e]
Pending == [ok |-> FALSE, value |-> None, err |-> NoError]

(* ------------------------------- entity -------------------------------- *)
CreateNetworkData(chain_id, name, test_net) ==
    [chain_id |-> chain_id, name |-> name, test_net |-> test_net, rpc_url |-> UrlA,
     other_rpc_urls |-> <<>>, block_explorer_url |-> UrlA, fee_multiplier |-> 1,
     gas_limit_multiplier |-> 1, default_signer_address |-> AddrA]

\* validation_error with the test of name before the test of chain_id
validation_error_name_first(d) ==
    IF len(d.name) = 0 \/ len(d.name) > MAX_NAME_LENGTH
    THEN Some("name must be between 1 and {} characters")
    ELSE IF d.chain_id < 1 THEN Some("chain_id must be at least 1")
    ELSE IF len(d.rpc_url) > MAX_URL_LENGTH
    THEN Some("rpc_url must be at most {} characters")
    ELSE IF Len(d.other_rpc_urls) > MAX_OTHER_RPC_URLS
    THEN Some("other_rpc_urls can have at most {} items")
    ELSE IF \E i \in 1..Len(d.other_rpc_urls) : len(d.other_rpc_urls[i]) > MAX_URL_LENGTH
    THEN Some("each URL in other_rpc_urls must be at most {} characters")
    ELSE IF len(d.block_explorer_url) > MAX_URL_LENGTH
    THEN Some("block_explorer_url must be at most {} characters")
    ELSE IF d.fee_multiplier < 0 THEN Some("fee_multiplier must be at least 0")
    ELSE IF d.gas_limit_multiplier < 0 THEN Some("gas_limit_multiplier must be at least 0")
    ELSE IF len(d.default_signer_address) # ETHEREUM_ADDRESS_LENGTH
    THEN Some("default_signer_address must be {} characters")
    ELSE None

\* CreateNetworkData::validate: None for Ok(()), or the message of the
\* DomainError::ValidationError it returns, that of the first test that fails
validation_error(d) ==
    IF d.chain_id < 1 THEN Some("chain_id must be at least 1")
    ELSE IF len(d.name) = 0 \/ len(d.name) > MAX_NAME_LENGTH
    THEN Some("name must be between 1 and {} characters")
    ELSE IF len(d.rpc_url) > MAX_URL_LENGTH
    THEN Some("rpc_url must be at most {} characters")
    ELSE IF Len(d.other_rpc_urls) > MAX_OTHER_RPC_URLS
    THEN Some("other_rpc_urls can have at most {} items")
    ELSE IF \E i \in 1..Len(d.other_rpc_urls) : len(d.other_rpc_urls[i]) > MAX_URL_LENGTH
    THEN Some("each URL in other_rpc_urls must be at most {} characters")
    ELSE IF len(d.block_explorer_url) > MAX_URL_LENGTH
    THEN Some("block_explorer_url must be at most {} characters")
    ELSE IF d.fee_multiplier < 0 THEN Some("fee_multiplier must be at least 0")
    ELSE IF d.gas_limit_multiplier < 0 THEN Some("gas_limit_multiplier must be at least 0")
    ELSE IF len(d.default_signer_address) # ETHEREUM_ADDRESS_LENGTH
    THEN Some("default_signer_address must be {} characters")
    ELSE None

\* CreateNetworkData::validate: TRUE when every rule passes
validate(d) ==
    /\ ~(d.chain_id < 1)
    /\ ~(len(d.name) = 0 \/ len(d.name) > MAX_NAME_LENGTH)
    /\ ~(len(d.rpc_url) > MAX_URL_LENGTH)
    /\ ~(Len(d.other_rpc_urls) > MAX_OTHER_RPC_URLS)
    /\ \A i \in 1..Len(d.other_rpc_urls) : ~(len(d.other_rpc_urls[i]) > MAX_URL_LENGTH)
    /\ ~(len(d.block_explorer_url) > MAX_URL_LENGTH)
    /\ ~(d.fee_multiplier < 0)
    /\ ~(d.gas_limit_multiplier < 0)
    /\ ~(len(d.default_signer_address) # ETHEREUM_ADDRESS_LENGTH)

\* Network::new with  active: false
NetworkNew_inactive(d, id, t) ==
    [chain_id |-> d.chain_id, name |-> d.name, test_net |-> d.test_net, rpc_url |-> d.rpc_url,
     other_rpc_urls |-> d.other_rpc_urls, block_explorer_url |-> d.block_explorer_url,
     fee_multiplier |-> d.fee_multiplier, gas_limit_multiplier |-> d.gas_limit_multiplier,
     default_signer_address |-> d.default_signer_address, id |-> id, active |-> FALSE,
     created_at |-> t, updated_at |-> t]

\* Network::new after validation: id from NetworkId::new(), both timestamps
\* from one Utc::now()
NetworkNew(d, id, t) ==
    [chain_id |-> d.chain_id, name |-> d.name, test_net |-> d.test_net, rpc_url |-> d.rpc_url,
     other_rpc_urls |-> d.other_rpc_urls, block_explorer_url |-> d.block_explorer_url,
     fee_multiplier |-> d.fee_multiplier, gas_limit_multiplier |-> d.gas_limit_multiplier,
     default_signer_address |-> d.default_signer_address, id |-> id, active |-> TRUE,
     created_at |-> t, updated_at |-> t]

\* UpdateNetworkData::default(): every field absent
NoUpdates ==
    [chain_id |-> None, name |-> None, test_net |-> None, rpc_url |-> None,
     other_rpc_urls |-> None, block_explorer_url |-> None, fee_multiplier |-> None,
     gas_limit_multiplier |-> None, default_signer_address |-> None, active |-> None]

\* From<UpdateNetworkDto> for UpdateNetworkData: every field present but active
FromUpdateNetworkDto(dto) ==
    [chain_id |-> Some(dto.chain_id), name |-> Some(dto.name), test_net |-> Some(dto.test_net),
     rpc_url |-> Some(dto.rpc_url), other_rpc_urls |-> Some(dto.other_rpc_urls),
     block_explorer_url |-> Some(dto.block_explorer_url),
     fee_multiplier |-> Some(dto.fee_multiplier),
     gas_limit_multiplier |-> Some(dto.gas_limit_multiplier),
     default_signer_address |-> Some(dto.default_signer_address), active |-> None]

\* with_updates with  active: self.active  (the payload's flag is dropped)
with_updates_drops_active(self, d, t) ==
    [chain_id |-> unwrap_or(d.chain_id, self.chain_id), name |-> unwrap_or(d.name, self.name),
     test_net |-> unwrap_or(d.test_net, self.test_net),
     rpc_url |-> unwrap_or(d.rpc_url, self.rpc_url),
     other_rpc_urls |-> unwrap_or(d.other_rpc_urls, self.other_rpc_urls),
     block_explorer_url |-> unwrap_or(d.block_explorer_url, self.block_explorer_url),
     fee_multiplier |-> unwrap_or(d.fee_multiplier, self.fee_multiplier),
     gas_limit_multiplier |-> unwrap_or(d.gas_limit_multiplier, self.gas_limit_multiplier),
     default_signer_address |-> unwrap_or(d.default_signer_address, self.default_signer_address),
     id |-> self.id, active |-> self.active, created_at |-> self.created_at, updated_at |-> t]

\* with_updates with  updated_at: self.updated_at  (the timestamp is not refreshed)
with_updates_stale_updated_at(self, d, t) ==
    [chain_id |-> unwrap_or(d.chain_id, self.chain_id), name |-> unwrap_or(d.name, self.name),
     test_net |-> unwrap_or(d.test_net, self.test_net),
     rpc_url |-> unwrap_or(d.rpc_url, self.rpc_url),
     other_rpc_urls |-> unwrap_or(d.other_rpc_urls, self.other_rpc_urls),
     block_explorer_url |-> unwrap_or(d.block_explorer_url, self.block_explorer_url),
     fee_multiplier |-> unwrap_or(d.fee_multiplier, self.fee_multiplier),
     gas_limit_multiplier |-> unwrap_or(d.gas_limit_multiplier, self.gas_limit_multiplier),
     default_signer_address |-> unwrap_or(d.default_signer_address, self.default_signer_address),
     id |-> self.id, active |-> unwrap_or(d.active, self.active),
     created_at |-> self.created_at, updated_at |-> self.updated_at]

\* Network::with_updates, t the reading of Utc::now()
with_updates(self, d, t) ==
    [chain_id |-> unwrap_or(d.chain_id, self.chain_id), name |-> unwrap_or(d.name, self.name),
     test_net |-> unwrap_or(d.test_net, self.test_net),
     rpc_url |-> unwrap_or(d.rpc_url, self.rpc_url),
     other_rpc_urls |-> unwrap_or(d.other_rpc_urls, self.other_rpc_urls),
     block_explorer_url |-> unwrap_or(d.block_explorer_url, self.block_explorer_url),
     fee_multiplier |-> unwrap_or(d.fee_multiplier, self.fee_multiplier),
     gas_limit_multiplier |-> unwrap_or(d.gas_limit_multiplier, self.gas_limit_multiplier),
     default_signer_address |-> unwrap_or(d.default_signer_address, self.default_signer_address),
     id |-> self.id, active |-> unwrap_or(d.active, self.active),
     created_at |-> self.created_at, updated_at |-> t]

(* ------------------------------ inputs --------------------------------- *)
\* creation data a caller hands to CreateNetworkUseCase::execute: one valid
\* payload per chain id and one that fails validation
CreateInputs ==
    {CreateNetworkData(c, NameA, FALSE) : c \in 1..MaxChain}
      \cup {CreateNetworkData(0, NameA, FALSE)}

\* creation data that break two rules next to each other in the order of
\* validate, and one that breaks all
ManyViolations ==
    LET d0 == CreateNetworkData(1, NameA, FALSE)
        long == Repeat(97, MAX_URL_LENGTH + 1)
        short == Repeat(97, ETHEREUM_ADDRESS_LENGTH - 1)
    IN {[d0 EXCEPT !.chain_id = 0, !.name = <<>>],
        [d0 EXCEPT !.name = <<>>, !.rpc_url = long],
        [d0 EXCEPT !.rpc_url = long, !.other_rpc_urls = Repeat(UrlA, MAX_OTHER_RPC_URLS + 1)],
        [d0 EXCEPT !.other_rpc_urls = <<long>> \o Repeat(UrlA, MAX_OTHER_RPC_URLS)],
        [d0 EXCEPT !.other_rpc_urls = <<long>>, !.block_explorer_url = long],
        [d0 EXCEPT !.block_explorer_url = long, !.fee_multiplier = -1],
        [d0 EXCEPT !.fee_multiplier = -1, !.gas_limit_multiplier = -1],
        [d0 EXCEPT !.gas_limit_multiplier = -1, !.default_signer_address = short],
        [d0 EXCEPT !.chain_id = 0, !.name = <<>>, !.rpc_url = long,
                   !.other_rpc_urls = <<long>> \o Repeat(UrlA, MAX_OTHER_RPC_URLS),
                   !.block_explorer_url = long, !.fee_multiplier = -1,
                   !.gas_limit_multiplier = -1, !.default_signer_address = short]}

\* creation data for Network::new: the data of CreateNetworkData(1, NameA, FALSE)
\* with one field at a time set to a value at, inside or outside its rule
CreationData ==
    LET d0 == CreateNetworkData(1, NameA, FALSE)
    IN {[d0 EXCEPT !.chain_id = c] : c \in {0, 1, MaxChain}}
         \cup {[d0 EXCEPT !.name = n] :
                  n \in {<<>>, Repeat(97, MAX_NAME_LENGTH), Repeat(97, MAX_NAME_LENGTH + 1)}}
         \cup {[d0 EXCEPT !.rpc_url = u] :
                  u \in {Repeat(97, MAX_URL_LENGTH), Repeat(97, MAX_URL_LENGTH + 1)}}
         \cup {[d0 EXCEPT !.other_rpc_urls = l] :
                  l \in {Repeat(UrlA, MAX_OTHER_RPC_URLS), Repeat(UrlA, MAX_OTHER_RPC_URLS + 1),
                         <<UrlA, Repeat(97, MAX_URL_LENGTH + 1)>>}}
         \cup {[d0 EXCEPT !.block_explorer_url = u] :
                  u \in {Repeat(97, MAX_URL_LENGTH), Repeat(97, MAX_URL_LENGTH + 1)}}
         \cup {[d0 EXCEPT !.fee_multiplier = m] : m \in {-1, 0}}
         \cup {[d0 EXCEPT !.gas_limit_multiplier = m] : m \in {-1, 0}}
         \cup {[d0 EXCEPT !.default_signer_address = a] :
                  a \in {Repeat(97, ETHEREUM_ADDRESS_LENGTH - 1), Repeat(97, ETHEREUM_ADDRESS_LENGTH),
                         Repeat(97, ETHEREUM_ADDRESS_LENGTH + 1)}}
         \cup {[d0 EXCEPT !.test_net = TRUE]}
         \cup {[d0 EXCEPT !.default_signer_address = AddrNonAscii]}
         \cup ManyViolations

\* update data a caller hands to PartialUpdateNetworkUseCase::execute: sparse,
\* and one with an empty name
PatchInputs ==
    {NoUpdates}
      \cup {[NoUpdates EXCEPT !.chain_id = Some(c)] : c \in 1..MaxChain}
      \cup {[NoUpdates EXCEPT !.active = Some(b)] : b \in BOOLEAN}
      \cup {[NoUpdates EXCEPT !.name = Some(<<>>)]}

\* PUT payloads: a whole UpdateNetworkDto
UpdateNetworkDtos ==
    {[chain_id |-> c, name |-> NameB, test_net |-> TRUE, rpc_url |-> UrlB,
      other_rpc_urls |-> <<UrlA>>, block_explorer_url |-> UrlB, fee_multiplier |-> 2,
      gas_limit_multiplier |-> 3, default_signer_address |-> AddrB] : c \in 1..MaxChain}
PutInputs == {FromUpdateNetworkDto(dto) : dto \in UpdateNetworkDtos}

(* ------------------------------- state --------------------------------- *)
VARIABLES
    networks,   \* the rows of table networks
    nextId,     \* the next id NetworkId::new() returns
    now,        \* the clock read by Utc::now() and NOW()
    pc,         \* per request: where its execute() stands
    op,         \* per request: "create", "patch", "put", "delete"
    id,         \* per request: the id argument of execute
    data,       \* per request: the data argument of execute
    existing,   \* per request: the Option<Network> find_by_id returned
    network,    \* per request: the entity built by Network::new / with_updates
    deleted,    \* per request: what soft_delete returned
    result,     \* per request: the Result execute returned
    calls,      \* per request: the repository calls made so far, in order
    served      \* the number of requests taken so far

vars == <<networks, nextId, now, pc, op, id, data, existing, network, deleted, result, calls, served>>
locals == <<op, id, data, existing, network, deleted, result, calls>>
locals_but_result == <<op, id, data, existing, network, deleted, calls>>

Init ==
    /\ networks = {}
    /\ nextId = 1
    /\ now = 0
    /\ pc = [p \in Procs |-> "idle"]
    /\ op = [p \in Procs |-> ""]
    /\ id = [p \in Procs |-> UnknownId]
    /\ data = [p \in Procs |-> None]
    /\ existing = [p \in Procs |-> None]
    /\ network = [p \in Procs |-> None]
    /\ deleted = [p \in Procs |-> None]
    /\ result = [p \in Procs |-> Pending]
    /\ calls = [p \in Procs |-> <<>>]
    /\ served = 0


(* ----------------------------- repository ------------------------------ *)
\* find_by_id with  AND active = true
find_by_id_active_only(i) ==
    IF \E r \in networks : r.id = i /\ r.active
    THEN Some(CHOOSE r \in networks : r.id = i /\ r.active)
    ELSE None

\* SELECT ... FROM networks WHERE id = $1, fetch_optional
find_by_id(i) ==
    IF \E r \in networks : r.id = i
    THEN Some(CHOOSE r \in networks : r.id = i)
    ELSE None

\* exists_by_chain_id with  AND active = true  in both queries
exists_by_chain_id_active_only(chain_id, exclude_id) ==
    IF exclude_id = None
    THEN \E r \in networks : r.chain_id = chain_id /\ r.active
    ELSE \E r \in networks : r.chain_id = chain_id /\ r.active /\ r.id # exclude_id[1]

\* exists_by_chain_id with  id = $2  for  id != $2
exists_by_chain_id_wrong_exclude(chain_id, exclude_id) ==
    IF exclude_id = None
    THEN \E r \in networks : r.chain_id = chain_id
    ELSE \E r \in networks : r.chain_id = chain_id /\ r.id = exclude_id[1]

\* SELECT EXISTS(SELECT 1 FROM networks WHERE chain_id = $1 [AND id != $2])
exists_by_chain_id(chain_id, exclude_id) ==
    IF exclude_id = None
    THEN \E r \in networks : r.chain_id = chain_id
    ELSE \E r \in networks : r.chain_id = chain_id /\ r.id # exclude_id[1]

\* name_le(a, b): a sorts before or with b under ORDER BY name ASC, strings
\* compared code by code, a proper prefix first
RECURSIVE name_le(_, _)
name_le(a, b) ==
    IF a = <<>> THEN TRUE
    ELSE IF b = <<>> THEN FALSE
    ELSE IF a[1] # b[1] THEN a[1] < b[1]
    ELSE name_le(Tail(a), Tail(b))

\* the orders in which a set of rows can come back from ORDER BY name ASC:
\* every row once, names ascending, rows of equal name in any order
order_by_name(rows) ==
    {s \in [1..Cardinality(rows) -> rows] :
        /\ \A i, j \in DOMAIN s : i # j => s[i] # s[j]
        /\ \A i, j \in DOMAIN s : i < j => name_le(s[i].name, s[j].name)}

\* find_all_active without  WHERE active = true
find_all_active_all_rows == order_by_name(networks)

\* SELECT ... FROM networks WHERE active = true ORDER BY name ASC, fetch_all
find_all_active == order_by_name({r \in networks : r.active})

\* a networks table without the unique constraint
chain_id_unique_violation_off(i, chain_id) == FALSE

\* the unique constraint of the networks table on chain_id: TRUE when writing
\* chain_id into the row with id i would duplicate another row's chain_id
chain_id_unique_violation(i, chain_id) ==
    \E r \in networks : r.id # i /\ r.chain_id = chain_id

\* the row UPDATE networks SET ... WHERE id = $1 leaves: every column of n but
\* created_at, which the statement does not set
updated_row(r, n) == [n EXCEPT !.created_at = r.created_at]

\* soft_deleted_row without  updated_at = NOW()
soft_deleted_row_keeps_updated_at(r, t) == [r EXCEPT !.active = FALSE]

\* the row UPDATE networks SET active = false, updated_at = NOW() leaves
soft_deleted_row(r, t) == [r EXCEPT !.active = FALSE, !.updated_at = t]

\* rows_affected with  WHERE id = $1 AND active = true
rows_affected_active_only(i) == Cardinality({r \in networks : r.id = i /\ r.active})

\* result.rows_affected() of that statement for WHERE id = $1
rows_affected(i) == Cardinality({r \in networks : r.id = i})

\* chain_id_changed without the inner  new_chain_id != existing.chain_id()
chain_id_changed_always(d, e) == d.chain_id # None

\* if let Some(new_chain_id) = data.chain_id { if new_chain_id != existing.chain_id()
chain_id_changed(d, e) == d.chain_id # None /\ d.chain_id[1] # e.chain_id

\* delete_result with the test inverted
delete_result_inverted(was_deleted) == IF was_deleted THEN Err(NotFound) ELSE Ok(None)

\* DeleteNetworkUseCase::execute after soft_delete returned
delete_result(was_deleted) == IF ~was_deleted THEN Err(NotFound) ELSE Ok(None)

(* ------------------------------ requests ------------------------------- *)
\* a request slot is free before its first and after its last step
Free(p) == pc[p] \in {"idle", "done"}

\* the ids still to be handed out cover the creations under way
IdsLeft == nextId + Cardinality({q \in Procs : pc[q] = "c_new"}) <= MaxIds

\* execute is entered with its arguments
Enter(p, kind, i, d) ==
    /\ Free(p)
    /\ served < MaxRequests
    /\ served' = served + 1
    /\ op' = [op EXCEPT ![p] = kind]
    /\ id' = [id EXCEPT ![p] = i]
    /\ data' = [data EXCEPT ![p] = d]

\* execute returns r; its locals other than the arguments are dropped
Return(p, r) ==
    /\ pc' = [pc EXCEPT ![p] = "done"]
    /\ result' = [result EXCEPT ![p] = r]

\* execute goes on to the step at label l
Goto(p, l) ==
    /\ pc' = [pc EXCEPT ![p] = l]
    /\ result' = [result EXCEPT ![p] = Pending]

\* CreateExists with the test of exists_by_chain_id inverted
CreateExists_inverted(p) ==
    /\ IdsLeft
    /\ \E d \in CreateInputs :
        /\ Enter(p, "create", UnknownId, d)
        /\ calls' = [calls EXCEPT ![p] = <<"exists_by_chain_id">>]
        /\ deleted' = [deleted EXCEPT ![p] = None]
        /\ IF ~exists_by_chain_id(d.chain_id, None)
           THEN Return(p, Err(Conflict))
           ELSE Goto(p, "c_new")
        /\ existing' = [existing EXCEPT ![p] = None]
        /\ network' = [network EXCEPT ![p] = None]
    /\ UNCHANGED <<networks, nextId, now>>

\* CreateNetworkUseCase::execute(d) up to the return of exists_by_chain_id
CreateExistsFor(p, d) ==
    /\ IdsLeft
    /\ Enter(p, "create", UnknownId, d)
    /\ calls' = [calls EXCEPT ![p] = <<"exists_by_chain_id">>]
    /\ deleted' = [deleted EXCEPT ![p] = None]
    /\ IF exists_by_chain_id(d.chain_id, None)
       THEN Return(p, Err(Conflict))
       ELSE Goto(p, "c_new")
    /\ existing' = [existing EXCEPT ![p] = None]
    /\ network' = [network EXCEPT ![p] = None]
    /\ UNCHANGED <<networks, nextId, now>>

\* CreateNetworkUseCase::execute up to the return of exists_by_chain_id
CreateExists(p) == \E d \in CreateInputs : CreateExistsFor(p, d)

\* Network::new(data)?
CreateNew(p) ==
    /\ pc[p] = "c_new"
    /\ IF validate(data[p])
       THEN /\ network' = [network EXCEPT ![p] = NetworkNew(data[p], nextId, now)]
            /\ nextId' = nextId + 1
            /\ Goto(p, "c_create")
       ELSE /\ Return(p, Err(FromValidationError(validation_error(data[p])[1])))
            /\ UNCHANGED <<nextId, network>>
    /\ UNCHANGED <<networks, now, op, id, data, existing, deleted, calls, served>>

\* CreateInsert with an INSERT that no constraint rejects
CreateInsert_always_stores(p) ==
    /\ pc[p] = "c_create"
    /\ calls' = [calls EXCEPT ![p] = Append(calls[p], "create")]
    /\ networks' = networks \cup {network[p]}
    /\ Return(p, Ok(Some(network[p])))
    /\ UNCHANGED <<nextId, now, op, id, data, existing, network, deleted, served>>

\* network_repository.create(&network).await? and the return
CreateInsert(p) ==
    /\ pc[p] = "c_create"
    /\ calls' = [calls EXCEPT ![p] = Append(calls[p], "create")]
    /\ IF chain_id_unique_violation(network[p].id, network[p].chain_id)
       THEN /\ Return(p, Err(FromRepositoryError(UniqueViolationDbError)))
            /\ UNCHANGED networks
       ELSE /\ networks' = networks \cup {network[p]}
            /\ Return(p, Ok(Some(network[p])))
    /\ UNCHANGED <<nextId, now, op, id, data, existing, network, deleted, served>>

\* UpdateFind without the ok_or_else(NotFound): a missing record is merged anyway
UpdateFind_no_not_found(p, kind, i, d) ==
    /\ Enter(p, kind, i, d)
    /\ calls' = [calls EXCEPT ![p] = <<"find_by_id">>]
    /\ deleted' = [deleted EXCEPT ![p] = None]
    /\ existing' = [existing EXCEPT ![p] = find_by_id(i)]
    /\ network' = [network EXCEPT ![p] = None]
    /\ Goto(p, IF find_by_id(i) # None /\ chain_id_changed(d, find_by_id(i)[1])
               THEN "u_exists" ELSE "u_merge")
    /\ UNCHANGED <<networks, nextId, now>>

\* execute of the update use cases up to the return of find_by_id and the
\* test whether chain_id changed
UpdateFind(p, kind, i, d) ==
    /\ Enter(p, kind, i, d)
    /\ calls' = [calls EXCEPT ![p] = <<"find_by_id">>]
    /\ deleted' = [deleted EXCEPT ![p] = None]
    /\ existing' = [existing EXCEPT ![p] = find_by_id(i)]
    /\ network' = [network EXCEPT ![p] = None]
    /\ IF find_by_id(i) = None
       THEN Return(p, Err(NotFound))
       ELSE Goto(p, IF chain_id_changed(d, find_by_id(i)[1]) THEN "u_exists" ELSE "u_merge")
    /\ UNCHANGED <<networks, nextId, now>>

\* PartialUpdateNetworkUseCase::execute, first step
PartialUpdateFind(p) ==
    \E i \in Ids \cup {UnknownId}, d \in PatchInputs : UpdateFind(p, "patch", i, d)

\* UpdateNetworkUseCase::execute, first step
FullUpdateFind(p) ==
    \E i \in Ids \cup {UnknownId}, d \in PutInputs : UpdateFind(p, "put", i, d)

\* exists_by_chain_id(new_chain_id, Some(id)).await?
UpdateExists(p) ==
    /\ pc[p] = "u_exists"
    /\ calls' = [calls EXCEPT ![p] = Append(calls[p], "exists_by_chain_id")]
    /\ IF exists_by_chain_id(data[p].chain_id[1], Some(id[p]))
       THEN Return(p, Err(Conflict))
       ELSE Goto(p, "u_merge")
    /\ UNCHANGED <<networks, nextId, now, op, id, data, existing, network, deleted, served>>

\* let updated = existing.with_updates(data)
UpdateMerge(p) ==
    /\ pc[p] = "u_merge"
    /\ network' = [network EXCEPT ![p] = with_updates(existing[p][1], data[p], now)]
    /\ Goto(p, "u_update")
    /\ UNCHANGED <<networks, nextId, now, op, id, data, existing, deleted, calls, served>>

\* UpdateWrite with an UPDATE that sets the payload's columns only
UpdateWrite_payload_columns_only(p) ==
    /\ pc[p] = "u_update"
    /\ calls' = [calls EXCEPT ![p] = Append(calls[p], "update")]
    /\ IF find_by_id(network[p].id) = None
       THEN /\ Return(p, Err(NotFound))
            /\ UNCHANGED networks
       ELSE IF chain_id_unique_violation(network[p].id, network[p].chain_id)
       THEN /\ Return(p, Err(FromRepositoryError(UniqueViolationDbError)))
            /\ UNCHANGED networks
       ELSE LET old == find_by_id(network[p].id)[1]
                new == with_updates(old, data[p], network[p].updated_at)
            IN /\ networks' = (networks \ {old}) \cup {new}
               /\ Return(p, Ok(Some(new)))
    /\ UNCHANGED <<nextId, now, op, id, data, existing, network, deleted, served>>

\* network_repository.update(&updated).await?.ok_or_else(NotFound)? and the return
UpdateWrite(p) ==
    /\ pc[p] = "u_update"
    /\ calls' = [calls EXCEPT ![p] = Append(calls[p], "update")]
    /\ IF find_by_id(network[p].id) = None
       THEN /\ Return(p, Err(NotFound))
            /\ UNCHANGED networks
       ELSE IF chain_id_unique_violation(network[p].id, network[p].chain_id)
       THEN /\ Return(p, Err(FromRepositoryError(UniqueViolationDbError)))
            /\ UNCHANGED networks
       ELSE LET old == find_by_id(network[p].id)[1]
                new == updated_row(old, network[p])
            IN /\ networks' = (networks \ {old}) \cup {new}
               /\ Return(p, Ok(Some(new)))
    /\ UNCHANGED <<nextId, now, op, id, data, existing, network, deleted, served>>

\* GetNetworkByIdUseCase::execute(i): find_by_id(id).await?.ok_or_else(NotFound)?
GetNetworkByIdFor(p, i) ==
    /\ Enter(p, "get", i, None)
    /\ calls' = [calls EXCEPT ![p] = <<"find_by_id">>]
    /\ existing' = [existing EXCEPT ![p] = None]
    /\ deleted' = [deleted EXCEPT ![p] = None]
    /\ IF find_by_id(i) = None
       THEN /\ network' = [network EXCEPT ![p] = None]
            /\ Return(p, Err(NotFound))
       ELSE /\ network' = [network EXCEPT ![p] = find_by_id(i)[1]]
            /\ Return(p, Ok(Some(network'[p])))
    /\ UNCHANGED <<networks, nextId, now>>

\* GetNetworkByIdUseCase::execute
GetNetworkById(p) == \E i \in Ids \cup {UnknownId} : GetNetworkByIdFor(p, i)

\* GetActiveNetworksUseCase::execute: find_all_active().await? and Ok(networks)
GetActiveNetworks(p) ==
    /\ Enter(p, "list", UnknownId, None)
    /\ calls' = [calls EXCEPT ![p] = <<"find_all_active">>]
    /\ existing' = [existing EXCEPT ![p] = None]
    /\ deleted' = [deleted EXCEPT ![p] = None]
    /\ network' = [network EXCEPT ![p] = None]
    /\ \E found \in find_all_active : Return(p, Ok(found))
    /\ UNCHANGED <<networks, nextId, now>>

\* DeleteNetwork with  DELETE FROM networks WHERE id = $1
DeleteNetwork_hard_delete(p) ==
    /\ \E i \in Ids \cup {UnknownId} :
        /\ Enter(p, "delete", i, None)
        /\ calls' = [calls EXCEPT ![p] = <<"soft_delete">>]
        /\ existing' = [existing EXCEPT ![p] = None]
        /\ network' = [network EXCEPT ![p] = None]
        /\ networks' = {r \in networks : r.id # i}
        /\ deleted' = [deleted EXCEPT ![p] = Some(rows_affected(i) > 0)]
        /\ Return(p, delete_result(rows_affected(i) > 0))
    /\ UNCHANGED <<nextId, now>>

\* DeleteNetworkUseCase::execute(i): soft_delete(id).await? and the return
DeleteNetworkFor(p, i) ==
    /\ Enter(p, "delete", i, None)
    /\ calls' = [calls EXCEPT ![p] = <<"soft_delete">>]
    /\ existing' = [existing EXCEPT ![p] = None]
    /\ network' = [network EXCEPT ![p] = None]
    /\ networks' = {IF r.id = i THEN soft_deleted_row(r, now) ELSE r : r \in networks}
    /\ deleted' = [deleted EXCEPT ![p] = Some(rows_affected(i) > 0)]
    /\ Return(p, delete_result(rows_affected(i) > 0))
    /\ UNCHANGED <<nextId, now>>

\* DeleteNetworkUseCase::execute
DeleteNetwork(p) == \E i \in Ids \cup {UnknownId} : DeleteNetworkFor(p, i)

\* the clock advances
Tick ==
    /\ now < MaxTime
    /\ now' = now + 1
    /\ UNCHANGED <<networks, nextId, pc, locals, served>>

Next ==
    \/ \E p \in Procs : CreateExists(p)
    \/ \E p \in Procs : CreateNew(p)
    \/ \E p \in Procs : CreateInsert(p)
    \/ \E p \in Procs : PartialUpdateFind(p)
    \/ \E p \in Procs : FullUpdateFind(p)
    \/ \E p \in Procs : UpdateExists(p)
    \/ \E p \in Procs : UpdateMerge(p)
    \/ \E p \in Procs : UpdateWrite(p)
    \/ \E p \in Procs : DeleteNetwork(p)
    \/ \E p \in Procs : GetNetworkById(p)
    \/ \E p \in Procs : GetActiveNetworks(p)
    \/ Tick

Spec == Init /\ [][Next]_vars

(* ----------------------- every error, as a response -------------------- *)
\* details an error value can carry
ErrorDetails == {"chain_id", "23505", "08006"}

\* the values of UseCaseError, variant by variant
UseCaseErrors ==
    {UseCaseError(v, "", m) :
        v \in {"Validation", "NotFound", "Conflict", "Unauthorized", "Forbidden"},
        m \in ErrorDetails}
      \cup {UseCaseError("Domain", d, m) :
                d \in {"ChainIdConflict", "InvalidState", "ValidationError"},
                m \in ErrorDetails}
      \cup {UseCaseError("Repository", r, m) :
                r \in {"Database", "NotFound", "Mapping", "UniqueViolation"},
                m \in ErrorDetails}

\* a handler's execute(..).await? fails with e, which `?` wraps in
\* ApiError::UseCase and into_response turns into the response
FailWith(p) ==
    /\ \E e \in UseCaseErrors : Return(p, Err(e))
    /\ UNCHANGED <<networks, nextId, now, locals_but_result, served>>

NextErrors == \E p \in Procs : FailWith(p)

SpecErrors == Init /\ [][NextErrors]_vars

(* --------------------------- the HTTP boundary -------------------------- *)
starts_with(str, prefix) ==
    Len(str) >= Len(prefix) /\ SubSeq(str, 1, Len(prefix)) = prefix
\* str.strip_prefix(prefix), for a str that starts with it
strip_prefix(str, prefix) == SubSeq(str, Len(prefix) + 1, Len(str))

\* "http://", "https://", "/"
HttpPrefix == <<104, 116, 116, 112, 58, 47, 47>>
HttpsPrefix == <<104, 116, 116, 112, 115, 58, 47, 47>>
Slash == <<47>>
\* "ftp://a", "http://", an address with a character that is no hex digit
FtpUrl == <<102, 116, 112, 58, 47, 47, 97>>
UrlWithoutHost == HttpPrefix
AddrNotHex == <<48, 120>> \o Repeat(103, 40)

\* validate_url: TRUE when the URL is accepted
validate_url(url) ==
    IF ~starts_with(url, HttpPrefix) /\ ~starts_with(url, HttpsPrefix) THEN FALSE
    ELSE LET without_protocol ==
                 IF starts_with(url, HttpsPrefix) THEN strip_prefix(url, HttpsPrefix)
                 ELSE strip_prefix(url, HttpPrefix)
         IN ~(without_protocol = <<>> \/ starts_with(without_protocol, Slash))

\* validate_url_list
validate_url_list(urls) ==
    \A i \in 1..Len(urls) : validate_url(urls[i]) /\ ~(len(urls[i]) > 500)

\* ETHEREUM_ADDRESS_REGEX  ^0x[a-fA-F0-9]{40}$
validate_ethereum_address(address) ==
    /\ Len(address) = 42
    /\ address[1] = 48 /\ address[2] = 120
    /\ \A i \in 3..42 : address[i] \in (48..57) \cup (65..70) \cup (97..102)

\* the fields of a CreateNetworkDto or UpdateNetworkDto that fail a
\* #[validate] attribute (multipliers are whole numbers here, so
\* validate_decimal accepts each)
CreateNetworkDto_validate(dto) ==
    (IF dto.chain_id < 1 THEN {"chain_id"} ELSE {})
      \cup (IF Len(dto.name) < 1 \/ Len(dto.name) > 100 THEN {"name"} ELSE {})
      \cup (IF Len(dto.rpc_url) > 500 \/ ~validate_url(dto.rpc_url) THEN {"rpc_url"} ELSE {})
      \cup (IF Len(dto.other_rpc_urls) > 10 \/ ~validate_url_list(dto.other_rpc_urls)
            THEN {"other_rpc_urls"} ELSE {})
      \cup (IF Len(dto.block_explorer_url) > 500 \/ ~validate_url(dto.block_explorer_url)
            THEN {"block_explorer_url"} ELSE {})
      \cup (IF dto.fee_multiplier < 0 THEN {"fee_multiplier"} ELSE {})
      \cup (IF dto.gas_limit_multiplier < 0 THEN {"gas_limit_multiplier"} ELSE {})
      \cup (IF ~validate_ethereum_address(dto.default_signer_address)
            THEN {"default_signer_address"} ELSE {})

UpdateNetworkDto_validate(dto) == CreateNetworkDto_validate(dto)

\* PatchNetworkDto validation without the custom validate_url on the URLs
PatchNetworkDto_validate_no_url_check(dto) ==
    (IF dto.chain_id # None /\ dto.chain_id[1] < 1 THEN {"chain_id"} ELSE {})
      \cup (IF dto.name # None /\ (Len(dto.name[1]) < 1 \/ Len(dto.name[1]) > 100)
            THEN {"name"} ELSE {})
      \cup (IF dto.rpc_url # None /\ Len(dto.rpc_url[1]) > 500 THEN {"rpc_url"} ELSE {})
      \cup (IF dto.other_rpc_urls # None /\ Len(dto.other_rpc_urls[1]) > 10
            THEN {"other_rpc_urls"} ELSE {})
      \cup (IF dto.block_explorer_url # None /\ Len(dto.block_explorer_url[1]) > 500
            THEN {"block_explorer_url"} ELSE {})
      \cup (IF dto.fee_multiplier # None /\ dto.fee_multiplier[1] < 0
            THEN {"fee_multiplier"} ELSE {})
      \cup (IF dto.gas_limit_multiplier # None /\ dto.gas_limit_multiplier[1] < 0
            THEN {"gas_limit_multiplier"} ELSE {})
      \cup (IF dto.default_signer_address # None
                 /\ ~validate_ethereum_address(dto.default_signer_address[1])
            THEN {"default_signer_address"} ELSE {})

\* the fields of a PatchNetworkDto that are present and fail a #[validate]
\* attribute
PatchNetworkDto_validate(dto) ==
    (IF dto.chain_id # None /\ dto.chain_id[1] < 1 THEN {"chain_id"} ELSE {})
      \cup (IF dto.name # None /\ (Len(dto.name[1]) < 1 \/ Len(dto.name[1]) > 100)
            THEN {"name"} ELSE {})
      \cup (IF dto.rpc_url # None
                 /\ (Len(dto.rpc_url[1]) > 500 \/ ~validate_url(dto.rpc_url[1]))
            THEN {"rpc_url"} ELSE {})
      \cup (IF dto.other_rpc_urls # None
                 /\ (Len(dto.other_rpc_urls[1]) > 10 \/ ~validate_url_list(dto.other_rpc_urls[1]))
            THEN {"other_rpc_urls"} ELSE {})
      \cup (IF dto.block_explorer_url # None
                 /\ (Len(dto.block_explorer_url[1]) > 500
                       \/ ~validate_url(dto.block_explorer_url[1]))
            THEN {"block_explorer_url"} ELSE {})
      \cup (IF dto.fee_multiplier # None /\ dto.fee_multiplier[1] < 0
            THEN {"fee_multiplier"} ELSE {})
      \cup (IF dto.gas_limit_multiplier # None /\ dto.gas_limit_multiplier[1] < 0
            THEN {"gas_limit_multiplier"} ELSE {})
      \cup (IF dto.default_signer_address # None
                 /\ ~validate_ethereum_address(dto.default_signer_address[1])
            THEN {"default_signer_address"} ELSE {})

\* From<validator::ValidationErrors> for ApiError: UseCaseError::Validation
\* with one message per failing field
FromValidationErrors(fields) == UseCaseError("Validation", "", fields)

\* From<CreateNetworkDto> for CreateNetworkData
FromCreateNetworkDto(dto) ==
    [chain_id |-> dto.chain_id, name |-> dto.name, test_net |-> dto.test_net,
     rpc_url |-> dto.rpc_url, other_rpc_urls |-> dto.other_rpc_urls,
     block_explorer_url |-> dto.block_explorer_url, fee_multiplier |-> dto.fee_multiplier,
     gas_limit_multiplier |-> dto.gas_limit_multiplier,
     default_signer_address |-> dto.default_signer_address]

\* From<PatchNetworkDto> for UpdateNetworkData
FromPatchNetworkDto(dto) ==
    [chain_id |-> dto.chain_id, name |-> dto.name, test_net |-> dto.test_net,
     rpc_url |-> dto.rpc_url, other_rpc_urls |-> dto.other_rpc_urls,
     block_explorer_url |-> dto.block_explorer_url, fee_multiplier |-> dto.fee_multiplier,
     gas_limit_multiplier |-> dto.gas_limit_multiplier,
     default_signer_address |-> dto.default_signer_address, active |-> dto.active]

\* a JWT as the extractor sees it: whether it decodes under HS256 with the
\* configured secret into Claims, and exp - now in seconds
Jwt(decodes, exp_in) == [decodes |-> decodes, exp_in |-> exp_in]
ValidJwt == Jwt(TRUE, 3600)
ExpiredJwt == Jwt(TRUE, -3600)
JustExpiredJwt == Jwt(TRUE, -30)
ForgedJwt == Jwt(FALSE, 3600)

\* the Authorization header of a request: absent, or a scheme and a token
AuthorizationHeaders ==
    {None, Some([scheme |-> "Basic ", token |-> ValidJwt])}
      \cup {Some([scheme |-> "Bearer ", token |-> t]) :
               t \in {ValidJwt, ExpiredJwt, JustExpiredJwt, ForgedJwt}}

\* the extractor's rejection
AuthError(message) == [variant |-> "AuthError", inner |-> "", code |-> message]

\* decode with validate_exp = false
decode_no_exp_validation(token) == token.decodes

\* decode::<Claims>(token, key, &validation): signature and claims, and exp
\* not more than leeway seconds in the past
decode(token) == token.decodes /\ ~(token.exp_in < -LEEWAY)

\* JwtAuth::from_request_parts (the config extension is set by
\* add_config_extension on every route)
from_request_parts(header) ==
    IF header = None THEN Err(AuthError("Missing Authorization header"))
    ELSE IF header[1].scheme # "Bearer " THEN Err(AuthError("Invalid Authorization header format"))
    ELSE IF ~decode(header[1].token) THEN Err(AuthError("Invalid or expired token"))
    ELSE Ok(None)

\* the {id} segment of a path as Uuid::parse_str reads it: the UUID, or None
\* for text that is no UUID
PathIds == {Some(i) : i \in Ids} \cup {None}
InvalidUuid == [variant |-> "InvalidUuid", inner |-> "", code |-> ""]
parse_str(path) == IF path = None THEN Err(InvalidUuid) ELSE Ok(path)

\* request bodies that deserialize into the DTO of their endpoint
GoodCreateNetworkDtos == {CreateNetworkData(c, NameA, FALSE) : c \in 1..MaxChain}
BadCreateNetworkDtos ==
    {[CreateNetworkData(1, NameA, FALSE) EXCEPT !.rpc_url = FtpUrl],
     [CreateNetworkData(1, NameA, FALSE) EXCEPT !.default_signer_address = AddrNotHex]}
CreateNetworkDtos == GoodCreateNetworkDtos \cup BadCreateNetworkDtos

BadUpdateNetworkDtos ==
    {[dto EXCEPT !.other_rpc_urls = <<UrlA, FtpUrl>>] : dto \in UpdateNetworkDtos}
PutNetworkDtos == UpdateNetworkDtos \cup BadUpdateNetworkDtos

EmptyPatchNetworkDto == NoUpdates
GoodPatchNetworkDtos ==
    {EmptyPatchNetworkDto,
     [NoUpdates EXCEPT !.active = Some(FALSE)],
     [NoUpdates EXCEPT !.chain_id = Some(MaxChain)]}
BadPatchNetworkDtos ==
    {[NoUpdates EXCEPT !.name = Some(<<>>)],
     [NoUpdates EXCEPT !.block_explorer_url = Some(UrlWithoutHost)]}
PatchNetworkDtos == GoodPatchNetworkDtos \cup BadPatchNetworkDtos

\* a handler returns before its use case is executed
Reject(p, kind, e) ==
    /\ Enter(p, kind, UnknownId, None)
    /\ calls' = [calls EXCEPT ![p] = <<>>]
    /\ existing' = [existing EXCEPT ![p] = None]
    /\ network' = [network EXCEPT ![p] = None]
    /\ deleted' = [deleted EXCEPT ![p] = None]
    /\ Return(p, Err(e))
    /\ UNCHANGED <<networks, nextId, now>>

\* POST /networks
create_network(p, header, dto) ==
    /\ served < MaxHttpRequests
    /\ IF ~from_request_parts(header).ok
       THEN Reject(p, "create", from_request_parts(header).err)
       ELSE IF CreateNetworkDto_validate(dto) # {}
       THEN Reject(p, "create", FromValidationErrors(CreateNetworkDto_validate(dto)))
       ELSE CreateExistsFor(p, FromCreateNetworkDto(dto))

\* GET /networks
get_active_networks(p, header) ==
    /\ served < MaxHttpRequests
    /\ IF ~from_request_parts(header).ok
       THEN Reject(p, "list", from_request_parts(header).err)
       ELSE GetActiveNetworks(p)

\* GET /networks/{id}
get_network_by_id(p, header, path) ==
    /\ served < MaxHttpRequests
    /\ IF ~from_request_parts(header).ok
       THEN Reject(p, "get", from_request_parts(header).err)
       ELSE IF ~parse_str(path).ok
       THEN Reject(p, "get", parse_str(path).err)
       ELSE GetNetworkByIdFor(p, parse_str(path).value[1])

\* PUT /networks/{id}
update_network(p, header, path, dto) ==
    /\ served < MaxHttpRequests
    /\ IF ~from_request_parts(header).ok
       THEN Reject(p, "put", from_request_parts(header).err)
       ELSE IF UpdateNetworkDto_validate(dto) # {}
       THEN Reject(p, "put", FromValidationErrors(UpdateNetworkDto_validate(dto)))
       ELSE IF ~parse_str(path).ok
       THEN Reject(p, "put", parse_str(path).err)
       ELSE UpdateFind(p, "put", parse_str(path).value[1], FromUpdateNetworkDto(dto))

\* PATCH /networks/{id}
partial_update_network(p, header, path, dto) ==
    /\ served < MaxHttpRequests
    /\ IF ~from_request_parts(header).ok
       THEN Reject(p, "patch", from_request_parts(header).err)
       ELSE IF PatchNetworkDto_validate(dto) # {}
       THEN Reject(p, "patch", FromValidationErrors(PatchNetworkDto_validate(dto)))
       ELSE IF ~parse_str(path).ok
       THEN Reject(p, "patch", parse_str(path).err)
       ELSE UpdateFind(p, "patch", parse_str(path).value[1], FromPatchNetworkDto(dto))

\* DELETE /networks/{id}
delete_network(p, header, path) ==
    /\ served < MaxHttpRequests
    /\ IF ~from_request_parts(header).ok
       THEN Reject(p, "delete", from_request_parts(header).err)
       ELSE IF ~parse_str(path).ok
       THEN Reject(p, "delete", parse_str(path).err)
       ELSE DeleteNetworkFor(p, parse_str(path).value[1])

\* the status of a handler's Ok return
success_status(kind) ==
    CASE kind = "create" -> 201
      [] kind = "delete" -> 204
      [] OTHER -> 200

\* the response to an error a handler or its extractor returned
error_response(e) ==
    CASE e.variant = "AuthError" ->
            [code |-> "UNAUTHORIZED", message |-> <<e.code>>, status |-> 401, details |-> None]
      [] e.variant = "InvalidUuid" ->
            [code |-> "INVALID_UUID", message |-> <<"Invalid ID format">>, status |-> 400,
             details |-> None]
      [] OTHER -> into_response(e)

NextHttp ==
    \/ \E p \in Procs, h \in AuthorizationHeaders, dto \in CreateNetworkDtos :
          create_network(p, h, dto)
    \/ \E p \in Procs, h \in AuthorizationHeaders : get_active_networks(p, h)
    \/ \E p \in Procs, h \in AuthorizationHeaders, path \in PathIds :
          get_network_by_id(p, h, path)
    \/ \E p \in Procs, h \in AuthorizationHeaders, path \in PathIds, dto \in PutNetworkDtos :
          update_network(p, h, path, dto)
    \/ \E p \in Procs, h \in AuthorizationHeaders, path \in PathIds, dto \in PatchNetworkDtos :
          partial_update_network(p, h, path, dto)
    \/ \E p \in Procs, h \in AuthorizationHeaders, path \in PathIds : delete_network(p, h, path)
    \/ \E p \in Procs : CreateNew(p)
    \/ \E p \in Procs : CreateInsert(p)
    \/ \E p \in Procs : UpdateExists(p)
    \/ \E p \in Procs : UpdateMerge(p)
    \/ \E p \in Procs : UpdateWrite(p)
    \/ Tick

SpecHttp == Init /\ [][NextHttp]_vars

(* ------------------------ Network::new on its own ----------------------- *)
\* a caller builds creation data and is about to call Network::new(data); the
\* entity of its call before is dropped
GiveData(p) ==
    /\ pc[p] \in {"idle", "done", "c_create"}
    /\ nextId <= MaxIds
    /\ \E d \in CreationData : data' = [data EXCEPT ![p] = d]
    /\ op' = [op EXCEPT ![p] = "new"]
    /\ network' = [network EXCEPT ![p] = None]
    /\ Goto(p, "c_new")
    /\ UNCHANGED <<networks, nextId, now, id, existing, deleted, calls, served>>

NextEntity ==
    \/ \E p \in Procs : GiveData(p)
    \/ \E p \in Procs : CreateNew(p)
    \/ Tick

SpecEntity == Init /\ [][NextEntity]_vars

(* -------------- the use cases over any NetworkRepository --------------- *)
\* The use cases hold an Arc<dyn NetworkRepository>: here every call returns
\* any value the trait's signature allows, as the scripted repositories of
\* the use cases' unit tests do; the table is not involved.

\* Result<_, RepositoryError>::Err values: a lost connection, a duplicate key
RepositoryFailures == {RepositoryError("Database", "08006", FALSE), UniqueViolationDbError}

\* the entity a repository returns for id i
Row(i) == NetworkNew(CreateNetworkData(1, NameA, FALSE), i, 0)

\* Result<bool, RepositoryError>
BoolAnswers == {Ok(TRUE), Ok(FALSE)} \cup {Err(e) : e \in RepositoryFailures}
\* Result<Option<Network>, RepositoryError> of find_by_id(i)
FindAnswers(i) == {Ok(None), Ok(Some(Row(i)))} \cup {Err(e) : e \in RepositoryFailures}
\* Result<Option<Network>, RepositoryError> of update(n)
UpdateAnswers(n) == {Ok(None), Ok(Some(n))} \cup {Err(e) : e \in RepositoryFailures}
\* Result<Network, RepositoryError> of create(n)
CreateAnswers(n) == {Ok(n)} \cup {Err(e) : e \in RepositoryFailures}
\* Result<Vec<Network>, RepositoryError> of find_all_active(): no row, or row i
ListAnswers(i) == {Ok(<<>>), Ok(<<Row(i)>>)} \cup {Err(e) : e \in RepositoryFailures}

\* CreateNetworkUseCase::execute(d) up to the return of exists_by_chain_id,
\* which answered r
CreateExistsGot(p, d, r) ==
    /\ served < MaxGatewayRequests
    /\ IdsLeft
    /\ Enter(p, "create", UnknownId, d)
    /\ calls' = [calls EXCEPT ![p] = <<"exists_by_chain_id">>]
    /\ deleted' = [deleted EXCEPT ![p] = None]
    /\ IF ~r.ok THEN Return(p, Err(FromRepositoryError(r.err)))
       ELSE IF r.value THEN Return(p, Err(Conflict))
       ELSE Goto(p, "c_new")
    /\ existing' = [existing EXCEPT ![p] = None]
    /\ network' = [network EXCEPT ![p] = None]
    /\ UNCHANGED <<networks, nextId, now>>

\* network_repository.create(&network).await?, which answered r, and the return
CreateInsertGot(p, r) ==
    /\ pc[p] = "c_create"
    /\ calls' = [calls EXCEPT ![p] = Append(calls[p], "create")]
    /\ IF ~r.ok THEN Return(p, Err(FromRepositoryError(r.err)))
       ELSE Return(p, Ok(Some(r.value)))
    /\ UNCHANGED <<networks, nextId, now, op, id, data, existing, network, deleted, served>>

\* execute of the update use cases up to the return of find_by_id, which
\* answered r, and the test whether chain_id changed
UpdateFindGot(p, kind, i, d, r) ==
    /\ served < MaxGatewayRequests
    /\ Enter(p, kind, i, d)
    /\ calls' = [calls EXCEPT ![p] = <<"find_by_id">>]
    /\ deleted' = [deleted EXCEPT ![p] = None]
    /\ network' = [network EXCEPT ![p] = None]
    /\ IF ~r.ok
       THEN /\ existing' = [existing EXCEPT ![p] = None]
            /\ Return(p, Err(FromRepositoryError(r.err)))
       ELSE /\ existing' = [existing EXCEPT ![p] = r.value]
            /\ IF r.value = None
               THEN Return(p, Err(NotFound))
               ELSE Goto(p, IF chain_id_changed(d, r.value[1]) THEN "u_exists" ELSE "u_merge")
    /\ UNCHANGED <<networks, nextId, now>>

\* UpdateExistsGot with  .await.unwrap_or(false)  for  .await?
UpdateExistsGot_swallows_error(p, r) ==
    /\ pc[p] = "u_exists"
    /\ calls' = [calls EXCEPT ![p] = Append(calls[p], "exists_by_chain_id")]
    /\ IF r.ok /\ r.value THEN Return(p, Err(Conflict))
       ELSE Goto(p, "u_merge")
    /\ UNCHANGED <<networks, nextId, now, op, id, data, existing, network, deleted, served>>

\* exists_by_chain_id(new_chain_id, Some(id)).await?, which answered r
UpdateExistsGot(p, r) ==
    /\ pc[p] = "u_exists"
    /\ calls' = [calls EXCEPT ![p] = Append(calls[p], "exists_by_chain_id")]
    /\ IF ~r.ok THEN Return(p, Err(FromRepositoryError(r.err)))
       ELSE IF r.value THEN Return(p, Err(Conflict))
       ELSE Goto(p, "u_merge")
    /\ UNCHANGED <<networks, nextId, now, op, id, data, existing, network, deleted, served>>

\* UpdateWriteGot with  .await?.unwrap_or(updated)  for  .await?.ok_or_else(NotFound)?
UpdateWriteGot_none_is_success(p, r) ==
    /\ pc[p] = "u_update"
    /\ calls' = [calls EXCEPT ![p] = Append(calls[p], "update")]
    /\ IF ~r.ok THEN Return(p, Err(FromRepositoryError(r.err)))
       ELSE IF r.value = None THEN Return(p, Ok(Some(network[p])))
       ELSE Return(p, Ok(r.value))
    /\ UNCHANGED <<networks, nextId, now, op, id, data, existing, network, deleted, served>>

\* network_repository.update(&updated).await?.ok_or_else(NotFound)?, which
\* answered r, and the return
UpdateWriteGot(p, r) ==
    /\ pc[p] = "u_update"
    /\ calls' = [calls EXCEPT ![p] = Append(calls[p], "update")]
    /\ IF ~r.ok THEN Return(p, Err(FromRepositoryError(r.err)))
       ELSE IF r.value = None THEN Return(p, Err(NotFound))
       ELSE Return(p, Ok(r.value))
    /\ UNCHANGED <<networks, nextId, now, op, id, data, existing, network, deleted, served>>

\* DeleteNetworkUseCase::execute(i): soft_delete(id).await?, which answered r
DeleteNetworkGot(p, i, r) ==
    /\ served < MaxGatewayRequests
    /\ Enter(p, "delete", i, None)
    /\ calls' = [calls EXCEPT ![p] = <<"soft_delete">>]
    /\ existing' = [existing EXCEPT ![p] = None]
    /\ network' = [network EXCEPT ![p] = None]
    /\ IF ~r.ok
       THEN /\ deleted' = [deleted EXCEPT ![p] = None]
            /\ Return(p, Err(FromRepositoryError(r.err)))
       ELSE /\ deleted' = [deleted EXCEPT ![p] = Some(r.value)]
            /\ Return(p, delete_result(r.value))
    /\ UNCHANGED <<networks, nextId, now>>

\* GetNetworkByIdUseCase::execute(i): find_by_id(id).await?, which answered r
GetNetworkByIdGot(p, i, r) ==
    /\ served < MaxGatewayRequests
    /\ Enter(p, "get", i, None)
    /\ calls' = [calls EXCEPT ![p] = <<"find_by_id">>]
    /\ existing' = [existing EXCEPT ![p] = None]
    /\ deleted' = [deleted EXCEPT ![p] = None]
    /\ IF ~r.ok
       THEN /\ network' = [network EXCEPT ![p] = None]
            /\ Return(p, Err(FromRepositoryError(r.err)))
       ELSE IF r.value = None
       THEN /\ network' = [network EXCEPT ![p] = None]
            /\ Return(p, Err(NotFound))
       ELSE /\ network' = [network EXCEPT ![p] = r.value[1]]
            /\ Return(p, Ok(r.value))
    /\ UNCHANGED <<networks, nextId, now>>

\* GetActiveNetworksUseCase::execute: find_all_active().await?, which answered r
GetActiveNetworksGot(p, r) ==
    /\ served < MaxGatewayRequests
    /\ Enter(p, "list", UnknownId, None)
    /\ calls' = [calls EXCEPT ![p] = <<"find_all_active">>]
    /\ existing' = [existing EXCEPT ![p] = None]
    /\ deleted' = [deleted EXCEPT ![p] = None]
    /\ network' = [network EXCEPT ![p] = None]
    /\ IF ~r.ok THEN Return(p, Err(FromRepositoryError(r.err)))
       ELSE Return(p, Ok(r.value))
    /\ UNCHANGED <<networks, nextId, now>>

NextGateway ==
    \/ \E p \in Procs, d \in CreateInputs, r \in BoolAnswers : CreateExistsGot(p, d, r)
    \/ \E p \in Procs : CreateNew(p)
    \/ \E p \in Procs : \E r \in CreateAnswers(network[p]) : CreateInsertGot(p, r)
    \/ \E p \in Procs, i \in Ids, d \in PatchInputs :
          \E r \in FindAnswers(i) : UpdateFindGot(p, "patch", i, d, r)
    \/ \E p \in Procs, i \in Ids, d \in PutInputs :
          \E r \in FindAnswers(i) : UpdateFindGot(p, "put", i, d, r)
    \/ \E p \in Procs, r \in BoolAnswers : UpdateExistsGot(p, r)
    \/ \E p \in Procs : UpdateMerge(p)
    \/ \E p \in Procs : \E r \in UpdateAnswers(network[p]) : UpdateWriteGot(p, r)
    \/ \E p \in Procs, i \in Ids, r \in BoolAnswers : DeleteNetworkGot(p, i, r)
    \/ \E p \in Procs, i \in Ids : \E r \in FindAnswers(i) : GetNetworkByIdGot(p, i, r)
    \/ \E p \in Procs, r \in ListAnswers(1) : GetActiveNetworksGot(p, r)
    \/ Tick

SpecGateway == Init /\ [][NextGateway]_vars

(* ------------------------------- claims -------------------------------- *)
Updating(p) == op[p] \in {"patch", "put"}
Failed(p, variant) == pc[p] = "done" /\ ~result[p].ok /\ result[p].err.variant = variant

\* C1: in every reachable state no two stored network records, active or
\* inactive, have the same chainId.
C1_ChainIdUnique ==
    \A r1 \in networks, r2 \in networks : r1 # r2 => r1.chain_id # r2.chain_id

\* C1 witness: two records are stored and a request lost the race for a
\* chainId at the storage level.
C1_Witness ==
    /\ Cardinality(networks) = 2
    /\ \E p \in Procs : Failed(p, "Repository") /\ result[p].err.code = "23505"

\* C2: a CreateNetwork execution whose chainId a stored record (active or
\* soft-deleted) holds when existence is checked returns Conflict (409,
\* CONFLICT), has called exists_by_chain_id only, and leaves the records as
\* they were.
C2_CreateConflict ==
    [][\A p \in Procs :
         (CreateExists(p) /\ \E r \in networks : r.chain_id = data'[p].chain_id)
           => /\ pc'[p] = "done"
              /\ result'[p] = Err(Conflict)
              /\ status_code(result'[p].err) = 409
              /\ error_code(result'[p].err) = "CONFLICT"
              /\ calls'[p] = <<"exists_by_chain_id">>
              /\ networks' = networks]_vars

\* C2 witness: a create was refused with Conflict for a chainId held by a
\* soft-deleted record.
C2_Witness ==
    \E p \in Procs :
        /\ op[p] = "create"
        /\ Failed(p, "Conflict")
        /\ \E r \in networks : ~r.active /\ r.chain_id = data[p].chain_id

\* C3: an execution whose create or update was rejected by the storage for a
\* duplicate chainId ends with status 409 and code CONFLICT.
C3_StorageConflictIs409 ==
    \A p \in Procs :
        (Failed(p, "Repository") /\ result[p].err.code = "23505")
          => status_code(result[p].err) = 409 /\ error_code(result[p].err) = "CONFLICT"

\* C4: a stored active flag goes from false to true only in the write of a
\* PartialUpdate whose payload carries active = true.
C4_ReactivatedOnlyByPatchActive ==
    [][\A r \in networks : \A r2 \in networks' :
         (r2.id = r.id /\ ~r.active /\ r2.active)
           => \E p \in Procs :
                /\ pc[p] = "u_update" /\ pc'[p] = "done"
                /\ op[p] = "patch"
                /\ network[p].id = r.id
                /\ data[p].active = Some(TRUE)]_vars

\* C5: an Update or PartialUpdate for whose id find_by_id returned nothing
\* has returned NotFound and has called find_by_id only.
C5_NotFoundStopsUpdate ==
    \A p \in Procs :
        (Updating(p) /\ existing[p] = None)
          => /\ pc[p] = "done"
             /\ result[p] = Err(NotFound)
             /\ status_code(result[p].err) = 404
             /\ calls[p] = <<"find_by_id">>

\* C5 witness: a PartialUpdate of an id without record has returned.
C5_Witness ==
    \E p \in Procs : op[p] = "patch" /\ Failed(p, "NotFound") /\ existing[p] = None

\* C6: an update whose payload chainId differs from the loaded record's goes
\* to the existence check, and when another record holds that chainId at the
\* check it returns Conflict without calling update and without changing a
\* stored record.
C6_UpdateConflict ==
    [][\A p \in Procs :
         /\ (Updating(p) /\ existing[p] # None /\ calls[p] = <<"find_by_id">>
               /\ chain_id_changed(data[p], existing[p][1]))
              => pc[p] = "u_exists"
         /\ (UpdateExists(p)
               /\ \E r \in networks : r.id # id[p] /\ r.chain_id = data[p].chain_id[1])
              => /\ pc'[p] = "done"
                 /\ result'[p] = Err(Conflict)
                 /\ status_code(result'[p].err) = 409
                 /\ calls'[p] = <<"find_by_id", "exists_by_chain_id">>
                 /\ networks' = networks]_vars

\* C6 witness: a full Update was refused with Conflict while the record it
\* loaded is still stored as loaded.
C6_Witness ==
    \E p \in Procs :
        /\ op[p] = "put"
        /\ Failed(p, "Conflict")
        /\ existing[p][1] \in networks

\* C7: an update whose payload has no chainId, or the loaded record's own
\* chainId, never calls exists_by_chain_id, ends after find_by_id and update,
\* and is not rejected with Conflict.
C7_OwnChainIdSkipsCheck ==
    \A p \in Procs :
        (/\ Updating(p)
         /\ existing[p] # None
         /\ (data[p].chain_id = None \/ data[p].chain_id[1] = existing[p][1].chain_id))
          => /\ \A k \in 1..Len(calls[p]) : calls[p][k] # "exists_by_chain_id"
             /\ pc[p] \in {"u_merge", "u_update", "done"}
             /\ pc[p] = "done"
                  => /\ calls[p] = <<"find_by_id", "update">>
                     /\ ~Failed(p, "Conflict")
                     /\ ~result[p].ok => status_code(result[p].err) # 409

\* C7 witness: a full Update carrying the record's own chainId has succeeded
\* while a second record is stored.
C7_Witness ==
    \E p \in Procs :
        /\ op[p] = "put"
        /\ pc[p] = "done" /\ result[p].ok
        /\ data[p].chain_id = Some(existing[p][1].chain_id)
        /\ Cardinality(networks) = 2

BusinessFields ==
    {"chain_id", "name", "rpc_url", "other_rpc_urls", "test_net", "block_explorer_url",
     "fee_multiplier", "gas_limit_multiplier", "active", "default_signer_address"}

\* C8: the merged entity keeps the loaded entity's id and createdAt, has the
\* payload's value for every field the payload carries and the loaded value
\* for every other field; with an empty payload only updatedAt can differ.
C8_MergeFrame ==
    \A p \in Procs :
        (Updating(p) /\ network[p] # None)
          => LET E == existing[p][1]
                 D == data[p]
                 R == network[p]
             IN /\ R.id = E.id
                /\ R.created_at = E.created_at
                /\ \A f \in BusinessFields : R[f] = IF D[f] # None THEN D[f][1] ELSE E[f]
                /\ D = NoUpdates => \A f \in (DOMAIN E) \ {"updated_at"} : R[f] = E[f]

\* C8 witness: a PATCH that re-activates an inactive record has been merged,
\* and so has an empty PATCH.
C8_Witness ==
    /\ \E p \in Procs :
          /\ op[p] = "patch" /\ network[p] # None
          /\ data[p].active = Some(TRUE) /\ ~existing[p][1].active
    /\ \E p \in Procs :
          op[p] = "patch" /\ network[p] # None /\ data[p] = NoUpdates

\* C9 as stated: the merged entity's updatedAt is strictly later than the
\* loaded entity's.
C9_UpdatedAtStrictlyLater ==
    \A p \in Procs :
        (Updating(p) /\ network[p] # None)
          => network[p].updated_at > existing[p][1].updated_at

\* C9 amended: the merge sets updatedAt to the clock reading at the merge,
\* which is not earlier than the loaded entity's updatedAt, whatever the
\* payload.
C9_UpdatedAtIsNow ==
    [][\A p \in Procs :
         UpdateMerge(p)
           => /\ network'[p].updated_at = now
              /\ network'[p].updated_at >= existing[p][1].updated_at]_vars

\* C9 witness: an empty PATCH was merged at a later clock reading than the
\* loaded updatedAt.
C9_Witness ==
    \E p \in Procs :
        /\ Updating(p) /\ network[p] # None
        /\ data[p] = NoUpdates
        /\ network[p].updated_at > existing[p][1].updated_at

\* C10: a returned Delete has called soft_delete only, returns NotFound
\* exactly when soft_delete reported no row affected, and returns success
\* without value when it reported one.
C10_DeleteResult ==
    \A p \in Procs :
        (op[p] = "delete" /\ pc[p] = "done")
          => /\ calls[p] = <<"soft_delete">>
             /\ deleted[p] # None
             /\ (result[p] = Err(NotFound)) <=> (deleted[p] = Some(FALSE))
             /\ (deleted[p] = Some(TRUE)) => result[p] = Ok(None)

\* C10 witness: one Delete has returned success and one NotFound.
C10_Witness ==
    /\ \E p \in Procs : op[p] = "delete" /\ pc[p] = "done" /\ deleted[p] = Some(TRUE)
    /\ \E p \in Procs : op[p] = "delete" /\ Failed(p, "NotFound")

\* C11: no step removes a stored record: a record stored before a step is
\* found by its id after it, with the same id and createdAt.
C11_NeverRemoved ==
    [][\A r \in networks :
         /\ \E r2 \in networks' : r2.id = r.id /\ r2.created_at = r.created_at
         /\ \A r2 \in networks' : r2.id = r.id => r2.created_at = r.created_at]_vars

\* C11 witness: a record that was fully updated at a later clock reading and
\* then soft-deleted is still stored.
C11_Witness ==
    /\ \E r \in networks : ~r.active /\ r.name = NameB /\ r.updated_at > r.created_at
    /\ \E p \in Procs : op[p] = "delete" /\ pc[p] = "done" /\ deleted[p] = Some(TRUE)

\* C12: GetActiveNetworks succeeds with a list holding each stored record
\* whose active flag is true once, and no other, names ascending; without
\* active records the list is empty.
C12_ActiveSortedByName ==
    [][\A p \in Procs :
         GetActiveNetworks(p)
           => LET found == result'[p].value
                  stored == {r \in networks : r.active}
              IN /\ pc'[p] = "done"
                 /\ result'[p].ok
                 /\ {found[i] : i \in DOMAIN found} = stored
                 /\ Len(found) = Cardinality(stored)
                 /\ \A i, j \in DOMAIN found : i < j => name_le(found[i].name, found[j].name)
                 /\ \A i, j \in DOMAIN found :
                       i < j => ~(found[i].name = NameB /\ found[j].name = NameA)
                 /\ stored = {} => found = <<>>
                 /\ networks' = networks]_vars

\* C12 witness: a list of two records came back, the later created one
\* first because of its name.
C12_Witness ==
    \E p \in Procs :
        /\ op[p] = "list" /\ pc[p] = "done" /\ result[p].ok
        /\ Len(result[p].value) = 2
        /\ result[p].value[1].name = NameA /\ result[p].value[2].name = NameB
        /\ result[p].value[1].id > result[p].value[2].id

\* C13: GetNetworkById returns NotFound exactly when no stored record has
\* the id, and otherwise returns the stored record with that id, active or
\* not, after one find_by_id.
C13_GetByIdResult ==
    [][\A p \in Procs :
         GetNetworkById(p)
           => /\ pc'[p] = "done"
              /\ calls'[p] = <<"find_by_id">>
              /\ (result'[p] = Err(NotFound)) <=> ~(\E r \in networks : r.id = id'[p])
              /\ status_code(Err(NotFound).err) = 404
              /\ \A r \in networks : r.id = id'[p] => result'[p] = Ok(Some(r))
              /\ networks' = networks]_vars

\* C13 witness: one GetNetworkById returned a soft-deleted record and one
\* returned NotFound.
C13_Witness ==
    /\ \E p \in Procs :
          /\ op[p] = "get" /\ pc[p] = "done" /\ result[p].ok
          /\ ~result[p].value[1].active
    /\ \E p \in Procs : op[p] = "get" /\ Failed(p, "NotFound")

\* the error a returned execution failed with, as the caller sees it
Response(p) == into_response(result[p].err)
Errored(p) == pc[p] = "done" /\ ~result[p].ok

\* C14 as stated: every UseCaseError gives one of the pairs 400
\* VALIDATION_ERROR, 404 NOT_FOUND, 409 CONFLICT, 401 UNAUTHORIZED, 403
\* FORBIDDEN or status 500.
C14_SixPairs ==
    \A p \in Procs :
        Errored(p)
          => \/ <<Response(p).status, Response(p).code>>
                   \in {<<400, "VALIDATION_ERROR">>, <<404, "NOT_FOUND">>, <<409, "CONFLICT">>,
                        <<401, "UNAUTHORIZED">>, <<403, "FORBIDDEN">>}
             \/ Response(p).status = 500

\* C14 amended: status and code of every UseCaseError are one of the six
\* pairs of the claim, 500 going with INTERNAL_ERROR, or 400 INVALID_STATE for
\* an invalid-state domain error; validation, not-found, conflict,
\* unauthorized and forbidden errors get their pair, a domain or repository
\* error that is a validation failure, a conflict or a missing record gets
\* that kind's pair, and every other repository failure gets 500.
C14_StatusAndCode ==
    \A p \in Procs :
        Errored(p)
          => LET e == result[p].err
                 pair == <<Response(p).status, Response(p).code>>
             IN /\ pair \in {<<400, "VALIDATION_ERROR">>, <<404, "NOT_FOUND">>,
                              <<409, "CONFLICT">>, <<401, "UNAUTHORIZED">>,
                              <<403, "FORBIDDEN">>, <<500, "INTERNAL_ERROR">>,
                              <<400, "INVALID_STATE">>}
                /\ e.variant = "Validation" => pair = <<400, "VALIDATION_ERROR">>
                /\ e.variant = "NotFound" => pair = <<404, "NOT_FOUND">>
                /\ e.variant = "Conflict" => pair = <<409, "CONFLICT">>
                /\ e.variant = "Unauthorized" => pair = <<401, "UNAUTHORIZED">>
                /\ e.variant = "Forbidden" => pair = <<403, "FORBIDDEN">>
                /\ e.inner = "ValidationError" => pair = <<400, "VALIDATION_ERROR">>
                /\ e.inner = "InvalidState" => pair = <<400, "INVALID_STATE">>
                /\ e.inner \in {"ChainIdConflict", "UniqueViolation"} => pair = <<409, "CONFLICT">>
                /\ (e.variant = "Repository" /\ e.inner = "NotFound") => pair = <<404, "NOT_FOUND">>
                /\ (e.variant = "Repository" /\ e.inner \in {"Database", "Mapping"})
                      => pair = <<500, "INTERNAL_ERROR">>

\* C14 witness: an invalid-state domain error and a unique violation reported
\* by the repository have both been turned into responses.
C14_Witness ==
    /\ \E p \in Procs : Errored(p) /\ result[p].err.inner = "InvalidState"
    /\ \E p \in Procs : Errored(p) /\ result[p].err.inner = "UniqueViolation"

\* C15: two repository failures of the database or mapping kind that differ
\* in their detail get the same response: status 500, code INTERNAL_ERROR,
\* the generic message, no details.
C15_NoDetailInResponse ==
    \A p, q \in Procs :
        (/\ Errored(p) /\ Errored(q)
         /\ result[p].err.variant = "Repository" /\ result[q].err.variant = "Repository"
         /\ result[p].err.inner \in {"Database", "Mapping"}
         /\ result[q].err.inner \in {"Database", "Mapping"})
          => /\ Response(p) = Response(q)
             /\ Response(p).status = 500
             /\ Response(p).code = "INTERNAL_ERROR"
             /\ Response(p).message = GenericMessage
             /\ Response(p).details = None
             /\ \A k \in DOMAIN Response(p).message :
                   Response(p).message[k] \notin {result[p].err.code, result[q].err.code}

\* C15 witness: two database failures with different SQLSTATE have been
\* turned into responses.
C15_Witness ==
    \E p, q \in Procs :
        /\ Errored(p) /\ Errored(q)
        /\ result[p].err.variant = "Repository" /\ result[p].err.inner = "Database"
        /\ result[q].err.variant = "Repository" /\ result[q].err.inner = "Database"
        /\ result[p].err.code # result[q].err.code

\* C17: every stored network satisfies all field validation rules.
C17_StoredRecordsValid ==
    \A r \in networks : validate(r)

CreationFields ==
    {"chain_id", "name", "rpc_url", "other_rpc_urls", "test_net", "block_explorer_url",
     "fee_multiplier", "gas_limit_multiplier", "default_signer_address"}

EntersOn(p, kind) == Free(p) /\ served' = served + 1 /\ op'[p] = kind

\* a step of p is the handling of a request with Authorization header h, on
\* any endpoint, with any id and body
HandledWith(p, h) ==
    \/ /\ EntersOn(p, "create")
       /\ \E dto \in CreateNetworkDtos : create_network(p, h, dto)
    \/ /\ EntersOn(p, "list")
       /\ get_active_networks(p, h)
    \/ /\ EntersOn(p, "get")
       /\ \E path \in PathIds : get_network_by_id(p, h, path)
    \/ /\ EntersOn(p, "put")
       /\ \E path \in PathIds, dto \in PutNetworkDtos : update_network(p, h, path, dto)
    \/ /\ EntersOn(p, "patch")
       /\ \E path \in PathIds, dto \in PatchNetworkDtos :
             partial_update_network(p, h, path, dto)
    \/ /\ EntersOn(p, "delete")
       /\ \E path \in PathIds : delete_network(p, h, path)

\* the step answers 401 UNAUTHORIZED without a repository call or a change of
\* the stored records
Answers401(p) ==
    /\ pc'[p] = "done"
    /\ ~result'[p].ok
    /\ error_response(result'[p].err).status = 401
    /\ error_response(result'[p].err).code = "UNAUTHORIZED"
    /\ calls'[p] = <<>>
    /\ networks' = networks
    /\ nextId' = nextId

\* C16 as stated: a request on any endpoint whose Authorization header is not
\* a bearer token that decodes and whose exp has not passed is answered 401,
\* executes no use case and changes no stored record.
C16_UnexpiredTokenOr401 ==
    [][\A p \in Procs, h \in AuthorizationHeaders :
         (/\ ~(h # None /\ h[1].scheme = "Bearer " /\ h[1].token.decodes
                 /\ h[1].token.exp_in >= 0)
          /\ ~Answers401(p))
           => ~HandledWith(p, h)]_vars

\* C16 amended: a request on any endpoint whose Authorization header is not
\* a bearer token that decodes and whose exp lies at most LEEWAY seconds in
\* the past is answered 401, executes no use case and changes no stored
\* record, whatever its body or id.
C16_AcceptedTokenOr401 ==
    [][\A p \in Procs, h \in AuthorizationHeaders :
         (/\ ~(h # None /\ h[1].scheme = "Bearer " /\ h[1].token.decodes
                 /\ h[1].token.exp_in >= -LEEWAY)
          /\ ~Answers401(p))
           => ~HandledWith(p, h)]_vars

\* C16 witness: with an active record stored, a DELETE naming it with a token
\* expired an hour ago was answered 401 and the record is still active.
C16_Witness ==
    /\ \E r \in networks : r.active
    /\ \A r \in networks : r.active
    /\ \E p \in Procs :
          /\ op[p] = "delete" /\ Failed(p, "AuthError")
          /\ result[p].err.code = "Invalid or expired token"
          /\ calls[p] = <<>>

\* the step answers 400 VALIDATION_ERROR without a repository call or a
\* change of the stored records
Answers400(p) ==
    /\ pc'[p] = "done"
    /\ ~result'[p].ok
    /\ error_response(result'[p].err).status = 400
    /\ error_response(result'[p].err).code = "VALIDATION_ERROR"
    /\ calls'[p] = <<>>
    /\ networks' = networks
    /\ nextId' = nextId

\* the Authorization headers the extractor accepts
AcceptedHeaders == {h \in AuthorizationHeaders : from_request_parts(h).ok}

\* C18 as stated: a POST, PUT or PATCH whose body has a field violating its
\* rule (a URL that is not http(s) or has no host, an address that is not
\* hex, an empty name) is answered 400 without reaching the use case,
\* whatever its Authorization header; a PATCH body without any field passes
\* validation.
C18_InvalidBodyIs400 ==
    [][\A p \in Procs, h \in AuthorizationHeaders :
         /\ (EntersOn(p, "create") /\ ~Answers400(p))
               => \A dto \in BadCreateNetworkDtos : ~create_network(p, h, dto)
         /\ (EntersOn(p, "put") /\ ~Answers400(p))
               => \A path \in PathIds, dto \in BadUpdateNetworkDtos :
                     ~update_network(p, h, path, dto)
         /\ (EntersOn(p, "patch") /\ ~Answers400(p))
               => \A path \in PathIds, dto \in BadPatchNetworkDtos :
                     ~partial_update_network(p, h, path, dto)
         /\ EntersOn(p, "patch")
               => \A path \in PathIds :
                     partial_update_network(p, h, path, EmptyPatchNetworkDto)
                       => /\ result'[p].err.variant # "Validation"
                          /\ (from_request_parts(h).ok /\ path # None)
                                => calls'[p] = <<"find_by_id">>]_vars

\* C18 amended: a POST, PUT or PATCH with an Authorization header the
\* extractor accepts whose body has a field violating its rule is answered
\* 400 without a repository call or a change of the stored records; a PATCH
\* body without any field passes validation and, with a well-formed id,
\* reaches the use case.
C18_AuthenticatedInvalidBodyIs400 ==
    [][\A p \in Procs, h \in AcceptedHeaders :
         /\ (EntersOn(p, "create") /\ ~Answers400(p))
               => \A dto \in BadCreateNetworkDtos : ~create_network(p, h, dto)
         /\ (EntersOn(p, "put") /\ ~Answers400(p))
               => \A path \in PathIds, dto \in BadUpdateNetworkDtos :
                     ~update_network(p, h, path, dto)
         /\ (EntersOn(p, "patch") /\ ~Answers400(p))
               => \A path \in PathIds, dto \in BadPatchNetworkDtos :
                     ~partial_update_network(p, h, path, dto)
         /\ EntersOn(p, "patch")
               => \A path \in PathIds :
                     partial_update_network(p, h, path, EmptyPatchNetworkDto)
                       => /\ result'[p].err.variant # "Validation"
                          /\ (from_request_parts(h).ok /\ path # None)
                                => calls'[p] = <<"find_by_id">>]_vars

\* C18 witness: a PATCH with a URL without host was answered 400 without a
\* repository call, and a PATCH with an empty body reached the use case,
\* which looked the id up.
C18_Witness ==
    /\ \E p \in Procs :
          /\ op[p] = "patch" /\ Failed(p, "Validation")
          /\ result[p].err.code = {"block_explorer_url"}
          /\ calls[p] = <<>>
    /\ \E p \in Procs :
          /\ op[p] = "patch" /\ data[p] = NoUpdates
          /\ calls[p] = <<"find_by_id">>
          /\ pc[p] = "done" /\ Failed(p, "NotFound")

\* C21 as stated: for creation data with chainId < 1, an empty name, a name
\* of more than 100 characters or a defaultSignerAddress that is not 42
\* characters long, Network::new fails with ValidationError and produces no
\* entity.
C21_InvalidDataFails ==
    [][\A p \in Procs :
         (/\ pc[p] = "c_new" /\ pc'[p] # "c_new"
          /\ \/ data[p].chain_id < 1
             \/ Len(data[p].name) = 0
             \/ Len(data[p].name) > 100
             \/ Len(data[p].default_signer_address) # 42
          /\ CreateNew(p))
           => /\ pc'[p] = "done"
              /\ ~result'[p].ok
              /\ result'[p].err.variant = "Domain"
              /\ result'[p].err.inner = "ValidationError"
              /\ network'[p] = None
              /\ nextId' = nextId]_vars

\* C22: a create that passed its existence check and reaches the insert
\* while a stored record holds its chainId (the check did not see it) is
\* rejected by the storage's uniqueness constraint, as a repository error and
\* not as Conflict, and the records stay as they were.
C22_SecondInsertRejectedByStorage ==
    [][\A p \in Procs :
         (/\ pc[p] = "c_create"
          /\ \E r \in networks : r.chain_id = network[p].chain_id
          /\ CreateInsert(p))
           => /\ calls[p] = <<"exists_by_chain_id">>
              /\ calls'[p] = <<"exists_by_chain_id", "create">>
              /\ pc'[p] = "done"
              /\ result'[p] = Err(FromRepositoryError(UniqueViolationDbError))
              /\ networks' = networks]_vars

\* C22 witness: two creates with the same chainId both passed the check and
\* both called create; the first one's record is stored, the second was
\* rejected by the storage.
C22_Witness ==
    \E p, q \in Procs :
        /\ p # q
        /\ op[p] = "create" /\ op[q] = "create"
        /\ data[p].chain_id = data[q].chain_id
        /\ calls[p] = <<"exists_by_chain_id", "create">>
        /\ calls[q] = <<"exists_by_chain_id", "create">>
        /\ pc[p] = "done" /\ result[p].ok /\ result[p].value[1] \in networks
        /\ Failed(q, "Repository") /\ result[q].err.code = "23505"
        /\ Cardinality({r \in networks : r.chain_id = data[q].chain_id}) = 1

\* the columns of a row other than active and updated_at
KeptByDelete ==
    {"id", "chain_id", "name", "rpc_url", "other_rpc_urls", "test_net", "block_explorer_url",
     "fee_multiplier", "gas_limit_multiplier", "default_signer_address", "created_at"}

\* C25: a Delete that succeeds leaves the target inactive with updatedAt set
\* to the clock reading, not earlier than before, every other field of the
\* target as it was, and every other stored record as it was.
C25_DeleteFrame ==
    [][\A p \in Procs :
         (EntersOn(p, "delete") /\ DeleteNetwork(p) /\ result'[p].ok)
           => /\ \E r \in networks : r.id = id'[p]
              /\ \A r \in networks :
                    IF r.id = id'[p]
                    THEN \E r2 \in networks' :
                            /\ \A f \in KeptByDelete : r2[f] = r[f]
                            /\ ~r2.active
                            /\ r2.updated_at = now
                            /\ r2.updated_at >= r.updated_at
                    ELSE r \in networks'
              /\ Cardinality(networks') = Cardinality(networks)]_vars

\* C25 witness: a Delete succeeded at a later clock reading than its
\* target's creation, and another record is stored, active.
C25_Witness ==
    \E p \in Procs :
        /\ op[p] = "delete" /\ pc[p] = "done" /\ result[p].ok
        /\ \E r \in networks : r.id = id[p] /\ ~r.active /\ r.updated_at > r.created_at
        /\ \E r \in networks : r.id # id[p] /\ r.active

\* C27: the write of an update stores the whole merged record: in every
\* field the payload does not carry, the value of the snapshot the execution
\* loaded, whatever the stored record holds by then; so of two PartialUpdates
\* of one id that both load before either writes, the second writer's merge
\* of the old snapshot is what stays stored.
C27_LastWriterWins ==
    [][\A p \in Procs :
         (pc[p] = "u_update" /\ UpdateWrite(p) /\ result'[p].ok)
           => LET r2 == result'[p].value[1]
              IN /\ r2 \in networks'
                 /\ \A r \in networks' : r.id = r2.id => r = r2
                 /\ \A f \in BusinessFields :
                       r2[f] = IF data[p][f] # None THEN data[p][f][1] ELSE existing[p][1][f]
                 /\ r2.updated_at = network[p].updated_at]_vars

\* C27 witness: two PartialUpdates of one id loaded the same snapshot, one
\* carrying only a chainId and one only active = false; both succeeded, and
\* the stored record has the second one's flag and the old chainId, not the
\* first one's.
C27_Witness ==
    \E p, q \in Procs :
        /\ p # q
        /\ op[p] = "patch" /\ op[q] = "patch"
        /\ id[p] = id[q]
        /\ existing[p] # None /\ existing[p] = existing[q]
        /\ data[p] = [NoUpdates EXCEPT !.chain_id = Some(MaxChain)]
        /\ data[q] = [NoUpdates EXCEPT !.active = Some(FALSE)]
        /\ existing[p][1].chain_id # MaxChain /\ existing[p][1].active
        /\ pc[p] = "done" /\ result[p].ok /\ result[p].value[1].chain_id = MaxChain
        /\ pc[q] = "done" /\ result[q].ok
        /\ result[q].value[1] \in networks
        /\ result[q].value[1].chain_id = existing[p][1].chain_id
        /\ result[p].value[1] \notin networks

\* C28: the record an Update or PartialUpdate loaded is still stored when
\* its repository update runs, so an execution whose lookup succeeded never
\* returns NotFound.
C28_UpdateFindsLoadedRow ==
    \A p \in Procs :
        (Updating(p) /\ existing[p] # None)
          => /\ \E r \in networks : r.id = existing[p][1].id
             /\ ~Failed(p, "NotFound")

\* C28 witness: a PartialUpdate without active in its payload succeeded on a
\* record that a Delete deactivated after the PartialUpdate had loaded it.
C28_Witness ==
    \E p, q \in Procs :
        /\ op[p] = "patch" /\ pc[p] = "done" /\ result[p].ok
        /\ calls[p] = <<"find_by_id", "update">>
        /\ data[p].active = None /\ existing[p][1].active
        /\ op[q] = "delete" /\ id[q] = id[p] /\ pc[q] = "done" /\ result[q].ok
        /\ result[p].value[1] \in networks

\* C29: a Delete returns NotFound exactly when no stored record has the id;
\* for a record that is already inactive it succeeds, leaves it inactive and
\* sets updatedAt to the clock reading.
C29_DeleteInactiveAgain ==
    [][\A p \in Procs :
         (EntersOn(p, "delete") /\ DeleteNetwork(p))
           => /\ pc'[p] = "done"
              /\ (result'[p] = Err(NotFound)) <=> ~(\E r \in networks : r.id = id'[p])
              /\ \A r \in networks :
                    (r.id = id'[p] /\ ~r.active)
                      => /\ result'[p] = Ok(None)
                         /\ \E r2 \in networks' :
                               r2.id = r.id /\ ~r2.active /\ r2.updated_at = now]_vars

\* C29 witness: two Deletes of one id both succeeded, the record is inactive
\* and its updatedAt is later than its creation.
C29_Witness ==
    \E p, q \in Procs :
        /\ p # q
        /\ op[p] = "delete" /\ op[q] = "delete" /\ id[p] = id[q]
        /\ pc[p] = "done" /\ result[p] = Ok(None)
        /\ pc[q] = "done" /\ result[q] = Ok(None)
        /\ \E r \in networks : r.id = id[p] /\ ~r.active /\ r.updated_at > r.created_at

\* C30: no step lowers the stored updatedAt of a record, and no stored
\* record has an updatedAt earlier than its createdAt.
C30_UpdatedAtNeverDecreases ==
    [][/\ \A r \in networks : \A r2 \in networks' :
            r2.id = r.id => r2.updated_at >= r.updated_at
       /\ \A r2 \in networks' : r2.updated_at >= r2.created_at]_vars

\* the rules of creation data in the order of the claim, lengths of strings
\* as the code measures them
Breaks(d, k) ==
    CASE k = 1 -> d.chain_id < 1
      [] k = 2 -> len(d.name) < 1 \/ len(d.name) > 100
      [] k = 3 -> len(d.rpc_url) > 500
      [] k = 4 -> Len(d.other_rpc_urls) > 10
      [] k = 5 -> \E i \in DOMAIN d.other_rpc_urls : len(d.other_rpc_urls[i]) > 500
      [] k = 6 -> len(d.block_explorer_url) > 500
      [] k = 7 -> d.fee_multiplier < 0
      [] k = 8 -> d.gas_limit_multiplier < 0
      [] k = 9 -> len(d.default_signer_address) # 42

\* the message that names the rule
RuleMessage(k) ==
    CASE k = 1 -> "chain_id must be at least 1"
      [] k = 2 -> "name must be between 1 and {} characters"
      [] k = 3 -> "rpc_url must be at most {} characters"
      [] k = 4 -> "other_rpc_urls can have at most {} items"
      [] k = 5 -> "each URL in other_rpc_urls must be at most {} characters"
      [] k = 6 -> "block_explorer_url must be at most {} characters"
      [] k = 7 -> "fee_multiplier must be at least 0"
      [] k = 8 -> "gas_limit_multiplier must be at least 0"
      [] k = 9 -> "default_signer_address must be {} characters"

RepositoryFails(p, e) ==
    \/ /\ EntersOn(p, "create")
       /\ CreateExistsGot(p, data'[p], Err(e))
    \/ /\ pc[p] = "c_create"
       /\ CreateInsertGot(p, Err(e))
    \/ /\ EntersOn(p, "patch") \/ EntersOn(p, "put")
       /\ UpdateFindGot(p, op'[p], id'[p], data'[p], Err(e))
    \/ /\ pc[p] = "u_exists"
       /\ UpdateExistsGot(p, Err(e))
    \/ /\ pc[p] = "u_update"
       /\ UpdateWriteGot(p, Err(e))
    \/ /\ EntersOn(p, "delete")
       /\ DeleteNetworkGot(p, id'[p], Err(e))
    \/ /\ EntersOn(p, "get")
       /\ GetNetworkByIdGot(p, id'[p], Err(e))
    \/ /\ EntersOn(p, "list")
       /\ GetActiveNetworksGot(p, Err(e))

\* C23: in every use case a repository call that fails ends the execution
\* with that failure as a repository error; an execution that has returned
\* makes no further call (calls appear again only with a new execution); and
\* no execution makes the same repository call twice.
C23_FailureReturnedNoRetry ==
    [][\A p \in Procs :
         /\ \A e \in RepositoryFailures :
               RepositoryFails(p, e)
                 => /\ pc'[p] = "done"
                    /\ result'[p] = Err(UseCaseError("Repository", e.variant, e.code))
         /\ (pc[p] = "done" /\ calls'[p] # calls[p])
               => served' = served + 1 /\ Len(calls'[p]) = 1
         /\ \A i, j \in DOMAIN calls'[p] : i # j => calls'[p][i] # calls'[p][j]
         /\ Len(calls'[p]) <= Len(calls[p]) + 1]_vars

\* C23 witness: a PartialUpdate whose repository update failed returned the
\* failure after find_by_id, exists_by_chain_id and update, one call each,
\* and a create whose existence check failed returned after that one call.
C23_Witness ==
    \E p, q \in Procs :
        /\ op[p] = "patch" /\ Failed(p, "Repository")
        /\ result[p].err.code = "08006"
        /\ calls[p] = <<"find_by_id", "exists_by_chain_id", "update">>
        /\ op[q] = "create" /\ Failed(q, "Repository")
        /\ calls[q] = <<"exists_by_chain_id">>

\* C24: when repository update returns nothing for the merged entity, the
\* Update or PartialUpdate returns NotFound (404), for the id it was called
\* with, after that one update call.
C24_UpdateNoneIsNotFound ==
    [][\A p \in Procs :
         (pc[p] = "u_update" /\ UpdateWriteGot(p, Ok(None)))
           => /\ pc'[p] = "done"
              /\ result'[p] = Err(NotFound)
              /\ status_code(result'[p].err) = 404
              /\ id'[p] = id[p] /\ network[p].id = id[p]
              /\ calls'[p] = Append(calls[p], "update")]_vars

\* C24 witness: a PartialUpdate that loaded its record and merged it
\* returned NotFound after its update call.
C24_Witness ==
    \E p \in Procs :
        /\ op[p] = "patch"
        /\ existing[p] # None /\ network[p] # None
        /\ calls[p] = <<"find_by_id", "update">>
        /\ Failed(p, "NotFound")

====
